---------------------------- MODULE Spec2Model ----------------------------
(***************************************************************************)
(* A model of the simple redis server: the RESP frame codec (resp/) and    *)
(* the command layer (cmd/) over the shared backend store.                 *)
(*                                                                         *)
(* Bytes are one-character strings.  The byte alphabet is ASCII plus the   *)
(* single byte 0xFF (written "FF"), which is never part of valid UTF-8.    *)
(* A String (Rust text) is a sequence of characters: the ASCII characters  *)
(* and U+FFFD (written "REPL"), the replacement character.                 *)
(***************************************************************************)
EXTENDS Integers, Sequences, FiniteSets, TLC

VARIABLES
    \* ---- command layer: the shared backend and the connection handlers
    store,      \* the Backend: [hset : key -> set of members]
    pc,         \* handler -> "idle" | "exec" | "done"
    cmd,        \* handler -> the parser's result for the frame received
    acc,        \* handler -> the response items collected so far by SAdd::execute
    reply,      \* handler -> the response frame of the finished command (or NoFrame)
    added,      \* history: the <<key, member>> pairs backend.sadd was called with
    fresh,      \* history: handler -> per backend call, was the pair not yet in added
    atRecv,     \* history: handler -> the key's members when its SAdd was received
    hist,       \* history: the values the executed SET and HSET commands carried
    ncmds,      \* number of commands received so far
    \* ---- command parser applied to one input
    pin,        \* the frame handed to the parser
    ptarget,    \* which TryFrom is called: "Command" | "SAdd" | "SIsMember"
    pout,       \* its result (or NoResult)
    \* ---- decoder applied to a connection's receive buffer
    wire,       \* bytes still on the network
    sent,       \* history: the frames whose encodings make up the stream (or <<>>)
    buf,        \* the receive buffer (BytesMut)
    got,        \* history: frames decoded so far
    call,       \* history: the last decode call: decoder, buffer before and after, result
    retryOf,    \* history: tag of the call before, if the last call retried it
    dirty       \* bytes were read into the buffer since the last decode call

vars == <<store, pc, cmd, acc, reply, added, fresh, atRecv, hist, ncmds,
          pin, ptarget, pout,
          wire, sent, buf, got, call, retryOf, dirty>>
cmdVars == <<store, pc, cmd, acc, reply, added, fresh, atRecv, hist, ncmds>>
parseVars == <<pin, ptarget, pout>>
decVars == <<wire, sent, buf, got, call, retryOf, dirty>>

----------------------------------------------------------------------------
(* Sequences, bytes and text *)

Range(s) == {s[i] : i \in 1..Len(s)}

Take(s, n) == SubSeq(s, 1, n)

\* bytes::BytesMut::split_to / advance: what is left after the first n bytes
Drop(s, n) == SubSeq(s, n + 1, Len(s))

RECURSIVE Flatten(_)
Flatten(ss) == IF ss = <<>> THEN <<>> ELSE Head(ss) \o Flatten(Tail(ss))

CR == "\r"
LF == "\n"
CRLF == <<CR, LF>>
CRLF_LEN == Len(CRLF)

FF == "FF"
REPL == "REPL"

\* the ASCII characters of the model, in ascending byte order
Ascii == <<LF, CR, "#", "$", "%", "*", "+", ",", "-", ".",
           "0", "1", "2", "3", "4", "5", "6", "7", "8", "9", ":",
           "A", "B", "C", "D", "E", "F", "G", "H", "I", "J", "K", "L", "M",
           "N", "O", "P", "Q", "R", "S", "T", "U", "V", "W", "X", "Y", "Z", "_",
           "a", "b", "c", "d", "e", "f", "g", "h", "i", "j", "k", "l", "m",
           "n", "o", "p", "q", "r", "s", "t", "u", "v", "w", "x", "y", "z", "~">>

IsAscii(b) == b \in Range(Ascii)

Ord(c) == IF IsAscii(c) THEN CHOOSE i \in 1..Len(Ascii) : Ascii[i] = c
          ELSE Len(Ascii) + 1

UpperCase == <<"A", "B", "C", "D", "E", "F", "G", "H", "I", "J", "K", "L", "M",
               "N", "O", "P", "Q", "R", "S", "T", "U", "V", "W", "X", "Y", "Z">>
LowerCase == <<"a", "b", "c", "d", "e", "f", "g", "h", "i", "j", "k", "l", "m",
               "n", "o", "p", "q", "r", "s", "t", "u", "v", "w", "x", "y", "z">>

\* <[u8]>::to_ascii_lowercase
to_ascii_lowercase(bs) ==
    [i \in 1..Len(bs) |->
        IF bs[i] \in Range(UpperCase)
        THEN LowerCase[CHOOSE j \in 1..Len(UpperCase) : UpperCase[j] = bs[i]]
        ELSE bs[i]]

\* String::into_bytes / as_bytes: the UTF-8 bytes of a text
into_bytes(s) ==
    Flatten([i \in 1..Len(s) |-> IF s[i] = REPL THEN <<"EF", "BF", "BD">> ELSE <<s[i]>>])

\* String::from_utf8: the text, or the FromUtf8Error
String_from_utf8(bs) ==
    IF \A i \in 1..Len(bs) : IsAscii(bs[i])
    THEN [ok |-> TRUE, v |-> bs]
    ELSE [ok |-> FALSE, v |-> <<>>]

\* String::from_utf8_lossy: every invalid byte becomes U+FFFD
String_from_utf8_lossy(bs) ==
    [i \in 1..Len(bs) |-> IF IsAscii(bs[i]) THEN bs[i] ELSE REPL]

\* lexicographic order on String (the order of BTreeMap<String, _>)
RECURSIVE StrLess(_, _)
StrLess(a, b) ==
    IF b = <<>> THEN FALSE
    ELSE IF a = <<>> THEN TRUE
    ELSE IF Ord(Head(a)) # Ord(Head(b)) THEN Ord(Head(a)) < Ord(Head(b))
    ELSE StrLess(Tail(a), Tail(b))

DigitChars == <<"0", "1", "2", "3", "4", "5", "6", "7", "8", "9">>
IsDigit(c) == c \in Range(DigitChars)
DigitVal(c) == (CHOOSE i \in 1..Len(DigitChars) : DigitChars[i] = c) - 1

\* the decimal text of a natural number, as {} formats it
RECURSIVE NatText(_)
NatText(n) ==
    IF n < 10 THEN <<DigitChars[n + 1]>>
    ELSE NatText(n \div 10) \o <<DigitChars[(n % 10) + 1]>>

\* format!("{}", n) of a signed integer
IntText(n) == IF n < 0 THEN <<"-">> \o NatText(-n) ELSE NatText(n)

\* the value of a non-empty all-digit text
RECURSIVE DigitsVal(_)
DigitsVal(s) ==
    IF s = <<>> THEN 0
    ELSE DigitsVal(Take(s, Len(s) - 1)) * 10 + DigitVal(s[Len(s)])

AllDigits(s) == s # <<>> /\ \A i \in 1..Len(s) : IsDigit(s[i])

----------------------------------------------------------------------------
(* The frame model: RespFrame is a record [t |-> variant, payload].  The   *)
(* payload field is v for text and bytes, n for an integer, b for a        *)
(* boolean, d for a double, fs for a sequence of frames and m for a map.   *)

SimpleString(s) == [t |-> "SimpleString", v |-> s]
SimpleError(s) == [t |-> "Error", v |-> s]
Integer(n) == [t |-> "Integer", n |-> n]
BulkString(bs) == [t |-> "BulkString", v |-> bs]
NullBulkString == [t |-> "NullBulkString", v |-> <<>>]
RespArray(fs) == [t |-> "Array", fs |-> fs]
RespNullArray == [t |-> "NullArray", v |-> <<>>]
RespNull == [t |-> "Null", v |-> <<>>]
Boolean(b) == [t |-> "Boolean", b |-> b]
Double(d) == [t |-> "Double", d |-> d]
\* RespMap(BTreeMap<String, RespFrame>): a function from its key set
RespMap(m) == [t |-> "Map", m |-> m]
RespSet(fs) == [t |-> "Set", fs |-> fs]

NoFrame == [t |-> "none", v |-> <<>>]

\* f64 values: a finite value is (-1)^neg * d1.d2...dn * 10^exp with the
\* shortest digits that identify it (d1 # 0, dn # 0), zero has digits <<0>>
Fin(neg, dig, exp) == [k |-> "fin", neg |-> neg, dig |-> dig, exp |-> exp]
Inf(neg) == [k |-> "inf", neg |-> neg, dig |-> <<>>, exp |-> 0]
NaN == [k |-> "nan", neg |-> FALSE, dig |-> <<>>, exp |-> 0]

IsZero(d) == d.k = "fin" /\ d.dig = <<0>>

\* f64 == f64 (PartialEq): NaN equals nothing, -0.0 equals 0.0
f64_eq(a, b) ==
    /\ a.k # "nan" /\ b.k # "nan"
    /\ \/ a = b
       \/ IsZero(a) /\ IsZero(b)

\* #[derive(PartialEq)] on RespFrame and on the types it wraps
RECURSIVE RespFrame_eq(_, _)
RespFrame_eq(a, b) ==
    /\ a.t = b.t
    /\ CASE a.t = "Double" -> f64_eq(a.d, b.d)
         [] a.t \in {"Array", "Set"} ->
                /\ Len(a.fs) = Len(b.fs)
                /\ \A i \in 1..Len(a.fs) : RespFrame_eq(a.fs[i], b.fs[i])
         [] a.t = "Map" ->
                /\ DOMAIN a.m = DOMAIN b.m
                /\ \A x \in DOMAIN a.m : RespFrame_eq(a.m[x], b.m[x])
         [] OTHER -> a = b


----------------------------------------------------------------------------
(* The encoder: impl RespEncoder for each variant *)

Zeros(n) == [i \in 1..n |-> "0"]
DigText(dig) == [i \in 1..Len(dig) |-> DigitChars[dig[i] + 1]]

\* self.abs() > 1e+8
f64_abs_gt_1e8(d) ==
    \/ d.k = "inf"
    \/ d.k = "fin" /\ ~IsZero(d) /\ (d.exp > 8 \/ (d.exp = 8 /\ d.dig # <<1>>))

\* self.abs() < 1e-8
f64_abs_lt_1em8(d) == d.k = "fin" /\ (IsZero(d) \/ d.exp < -8)

\* format!("{}", d): plain decimal notation
f64_display(d) ==
    IF d.k = "nan" THEN <<"N", "a", "N">>
    ELSE (IF d.neg THEN <<"-">> ELSE <<>>) \o
         (IF d.k = "inf" THEN <<"i", "n", "f">>
          ELSE IF d.exp >= 0
               THEN IF Len(d.dig) <= d.exp + 1
                    THEN DigText(d.dig) \o Zeros(d.exp + 1 - Len(d.dig))
                    ELSE DigText(Take(d.dig, d.exp + 1)) \o <<".">>
                         \o DigText(Drop(d.dig, d.exp + 1))
               ELSE <<"0", ".">> \o Zeros(-d.exp - 1) \o DigText(d.dig))

\* format!("{:+e}", d): scientific notation with an explicit sign
f64_lower_exp_plus(d) ==
    IF d.k = "nan" THEN <<"N", "a", "N">>
    ELSE (IF d.neg THEN <<"-">> ELSE <<"+">>) \o
         (IF d.k = "inf" THEN <<"i", "n", "f">>
          ELSE <<DigitChars[d.dig[1] + 1]>>
               \o (IF Len(d.dig) > 1 THEN <<".">> \o DigText(Tail(d.dig)) ELSE <<>>)
               \o <<"e">> \o IntText(d.exp))

SimpleString_encode(s) == <<"+">> \o into_bytes(s) \o CRLF

SimpleError_encode(s) == <<"-">> \o into_bytes(s) \o CRLF

i64_encode(n) == <<":">> \o IntText(n) \o CRLF

BulkString_encode(bs) == <<"$">> \o NatText(Len(bs)) \o CRLF \o bs \o CRLF

NullBulkString_encode == <<"$", "-", "1">> \o CRLF

RespNullArray_encode == <<"*", "-", "1">> \o CRLF

RespNull_encode == <<"_">> \o CRLF

bool_encode(b) == IF b THEN <<"#", "t">> \o CRLF ELSE <<"#", "f">> \o CRLF

\* f64::encode, taking the scientific notation from 1e8 on
f64_encode_from_1e8(d) ==
    IF f64_abs_gt_1e8(d) \/ f64_abs_lt_1em8(d) \/ (d.k = "fin" /\ d.exp = 8)
    THEN <<",">> \o f64_lower_exp_plus(d) \o CRLF
    ELSE <<",">> \o f64_display(d) \o CRLF

f64_encode(d) ==
    IF f64_abs_gt_1e8(d) \/ f64_abs_lt_1em8(d)
    THEN <<",">> \o f64_lower_exp_plus(d) \o CRLF
    ELSE <<",">> \o f64_display(d) \o CRLF

\* the keys of a BTreeMap in iteration (ascending) order
RECURSIVE SortedKeys(_)
SortedKeys(ks) ==
    IF ks = {} THEN <<>>
    ELSE LET least == CHOOSE k \in ks : \A o \in ks \ {k} : StrLess(k, o)
         IN  <<least>> \o SortedKeys(ks \ {least})

RECURSIVE encode(_)

\* RespArray::encode, writing the byte length of the elements as the length
RespArray_encode_byte_length(fs) ==
    LET body == Flatten([i \in 1..Len(fs) |-> encode(fs[i])])
    IN  <<"*">> \o NatText(Len(body)) \o CRLF \o body

RespArray_encode(fs) ==
    <<"*">> \o NatText(Len(fs)) \o CRLF
    \o Flatten([i \in 1..Len(fs) |-> encode(fs[i])])

RespSet_encode(fs) ==
    <<"~">> \o NatText(Len(fs)) \o CRLF
    \o Flatten([i \in 1..Len(fs) |-> encode(fs[i])])

RespMap_encode(m) ==
    LET ks == SortedKeys(DOMAIN m)
    IN  <<"%">> \o NatText(Len(ks)) \o CRLF
        \o Flatten([i \in 1..Len(ks) |->
                       SimpleString_encode(ks[i]) \o encode(m[ks[i]])])

\* RespFrame::encode: enum_dispatch to the variant's encoder
encode(f) ==
    CASE f.t = "SimpleString" -> SimpleString_encode(f.v)
      [] f.t = "Error" -> SimpleError_encode(f.v)
      [] f.t = "Integer" -> i64_encode(f.n)
      [] f.t = "BulkString" -> BulkString_encode(f.v)
      [] f.t = "NullBulkString" -> NullBulkString_encode
      [] f.t = "Array" -> RespArray_encode(f.fs)
      [] f.t = "NullArray" -> RespNullArray_encode
      [] f.t = "Null" -> RespNull_encode
      [] f.t = "Boolean" -> bool_encode(f.b)
      [] f.t = "Double" -> f64_encode(f.d)
      [] f.t = "Map" -> RespMap_encode(f.m)
      [] f.t = "Set" -> RespSet_encode(f.fs)

----------------------------------------------------------------------------
(* The decoder.  decode(buf) of the code mutates the buffer and returns a  *)
(* Result; here it returns the result together with the buffer it leaves:  *)
(* [tag |-> "Ok" | "Incomplete" | "Malformed", frame, rest].               *)

DecOk(f, rest) == [tag |-> "Ok", frame |-> f, rest |-> rest]
DecErr(tag, b) == [tag |-> tag, frame |-> NoFrame, rest |-> b]

\* first position (1-based) of an element of cs in s, 0 when there is none
FirstIn(s, cs) ==
    IF \E i \in 1..Len(s) : s[i] \in cs
    THEN CHOOSE i \in 1..Len(s) : s[i] \in cs /\ \A j \in 1..(i - 1) : s[j] \notin cs
    ELSE 0

\* offset (0-based) of the first CRLF after the prefix byte, -1 when there is none
find_crlf(b) ==
    IF \E i \in 2..(Len(b) - 1) : b[i] = CR /\ b[i + 1] = LF
    THEN (CHOOSE i \in 2..(Len(b) - 1) :
              /\ b[i] = CR /\ b[i + 1] = LF
              /\ \A j \in 2..(i - 1) : ~(b[j] = CR /\ b[j + 1] = LF)) - 1
    ELSE -1

\* extract_simple_frame_data(buf, prefix): the offset of the terminating CRLF
extract_simple_frame_data(b, prefix) ==
    IF b = <<>> THEN [tag |-> "Incomplete", end |-> 0]
    ELSE IF Take(b, Len(prefix)) # prefix THEN [tag |-> "Malformed", end |-> 0]
    ELSE IF find_crlf(b) < 0 THEN [tag |-> "Incomplete", end |-> 0]
    ELSE [tag |-> "Ok", end |-> find_crlf(b)]

SimpleError_PREFIX == <<"-">>

\* SimpleError::decode, skipping the first byte of a buffer it rejects
SimpleError_decode_resync(b) ==
    LET r == extract_simple_frame_data(b, SimpleError_PREFIX)
    IN  IF r.tag = "Malformed" THEN DecErr(r.tag, Tail(b))
        ELSE IF r.tag # "Ok" THEN DecErr(r.tag, b)
        ELSE DecOk(SimpleError(String_from_utf8_lossy(
                       SubSeq(b, Len(SimpleError_PREFIX) + 1, r.end))),
                   Drop(b, r.end + CRLF_LEN))

\* SimpleError::decode, started on a buffer that is consumed before it is checked
SimpleError_decode_eager(b) ==
    LET r == extract_simple_frame_data(b, SimpleError_PREFIX)
        n == IF r.tag = "Ok" THEN r.end + CRLF_LEN ELSE Len(b)
    IN  IF r.tag # "Ok" THEN DecErr(r.tag, Drop(b, n))
        ELSE DecOk(SimpleError(String_from_utf8_lossy(
                       SubSeq(b, Len(SimpleError_PREFIX) + 1, r.end))), Drop(b, n))

\* SimpleError::decode, splitting the buffer after the CR instead of after the CRLF
SimpleError_decode_short(b) ==
    LET r == extract_simple_frame_data(b, SimpleError_PREFIX)
    IN  IF r.tag # "Ok" THEN DecErr(r.tag, b)
        ELSE DecOk(SimpleError(String_from_utf8_lossy(
                       SubSeq(b, Len(SimpleError_PREFIX) + 1, r.end))),
                   Drop(b, r.end + 1))

\* SimpleError::decode, keeping the prefix byte in the payload
SimpleError_decode_prefix(b) ==
    LET r == extract_simple_frame_data(b, SimpleError_PREFIX)
    IN  IF r.tag # "Ok" THEN DecErr(r.tag, b)
        ELSE DecOk(SimpleError(String_from_utf8_lossy(SubSeq(b, 1, r.end))),
                   Drop(b, r.end + CRLF_LEN))

\* SimpleError::decode, answering a frame for a buffer with no CRLF yet
SimpleError_decode_hasty(b) ==
    LET r == extract_simple_frame_data(b, SimpleError_PREFIX)
    IN  IF r.tag = "Malformed" THEN DecErr(r.tag, b)
        ELSE IF r.tag = "Incomplete"
        THEN IF Len(b) < 2 THEN DecErr(r.tag, b)
             ELSE DecOk(SimpleError(String_from_utf8_lossy(Tail(b))), <<>>)
        ELSE DecOk(SimpleError(String_from_utf8_lossy(
                       SubSeq(b, Len(SimpleError_PREFIX) + 1, r.end))),
                   Drop(b, r.end + CRLF_LEN))

\* impl RespDecoder for SimpleError: decode
SimpleError_decode(b) ==
    LET r == extract_simple_frame_data(b, SimpleError_PREFIX)
    IN  IF r.tag # "Ok" THEN DecErr(r.tag, b)
        ELSE LET data == Take(b, r.end + CRLF_LEN)
                 s == String_from_utf8_lossy(
                          SubSeq(data, Len(SimpleError_PREFIX) + 1, r.end))
             IN  DecOk(SimpleError(s), Drop(b, r.end + CRLF_LEN))

\* impl RespDecoder for SimpleError: expect_length
SimpleError_expect_length(b) ==
    LET r == extract_simple_frame_data(b, SimpleError_PREFIX)
    IN  IF r.tag # "Ok" THEN [tag |-> r.tag, len |-> 0]
        ELSE [tag |-> "Ok", len |-> r.end + CRLF_LEN]

\* the payload of a simple frame whose CRLF is at offset end
SimplePayload(b, end) == SubSeq(b, 2, end)

\* SimpleString::decode
SimpleString_decode(b) ==
    LET r == extract_simple_frame_data(b, <<"+">>)
    IN  IF r.tag # "Ok" THEN DecErr(r.tag, b)
        ELSE DecOk(SimpleString(String_from_utf8_lossy(SimplePayload(b, r.end))),
                   Drop(b, r.end + CRLF_LEN))

\* the value of a signed decimal text: [ok, v]
ParseInt(s) ==
    LET body == IF s # <<>> /\ Head(s) \in {"+", "-"} THEN Tail(s) ELSE s
    IN  IF ~AllDigits(body) THEN [ok |-> FALSE, v |-> 0]
        ELSE [ok |-> TRUE,
              v |-> IF Head(s) = "-" THEN -DigitsVal(body) ELSE DigitsVal(body)]

\* i64::decode: the payload must be a signed decimal
i64_decode(b) ==
    LET r == extract_simple_frame_data(b, <<":">>)
        n == ParseInt(SimplePayload(b, r.end))
    IN  IF r.tag # "Ok" THEN DecErr(r.tag, b)
        ELSE IF ~n.ok THEN DecErr("Malformed", b)
        ELSE DecOk(Integer(n.v), Drop(b, r.end + CRLF_LEN))

\* bool::decode: the payload must be exactly t or f
bool_decode(b) ==
    LET r == extract_simple_frame_data(b, <<"#">>)
        pl == SimplePayload(b, r.end)
    IN  IF r.tag # "Ok" THEN DecErr(r.tag, b)
        ELSE IF pl = <<"t">> THEN DecOk(Boolean(TRUE), Drop(b, r.end + CRLF_LEN))
        ELSE IF pl = <<"f">> THEN DecOk(Boolean(FALSE), Drop(b, r.end + CRLF_LEN))
        ELSE DecErr("Malformed", b)

\* RespNull::decode: the payload must be empty
RespNull_decode(b) ==
    LET r == extract_simple_frame_data(b, <<"_">>)
    IN  IF r.tag # "Ok" THEN DecErr(r.tag, b)
        ELSE IF SimplePayload(b, r.end) # <<>> THEN DecErr("Malformed", b)
        ELSE DecOk(RespNull, Drop(b, r.end + CRLF_LEN))

RECURSIVE StripLeadingZeros(_)
StripLeadingZeros(ds) ==
    IF ds # <<>> /\ Head(ds) = 0 THEN StripLeadingZeros(Tail(ds)) ELSE ds

RECURSIVE StripTrailingZeros(_)
StripTrailingZeros(ds) ==
    IF ds # <<>> /\ ds[Len(ds)] = 0 THEN StripTrailingZeros(Take(ds, Len(ds) - 1))
    ELSE ds

\* str::parse::<f64>: the value of a float literal, [ok, v].  The literals of
\* the model have few digits, so each names one f64 and no rounding happens.
ParseF64(s) ==
    LET signed == s # <<>> /\ Head(s) \in {"+", "-"}
        neg == s # <<>> /\ Head(s) = "-"
        body == IF signed THEN Tail(s) ELSE s
        lc == to_ascii_lowercase(body)
        epos == FirstIn(body, {"e", "E"})
        mant == IF epos = 0 THEN body ELSE Take(body, epos - 1)
        expo == IF epos = 0 THEN <<"0">> ELSE Drop(body, epos)
        dot == FirstIn(mant, {"."})
        ip == IF dot = 0 THEN mant ELSE Take(mant, dot - 1)
        fp == IF dot = 0 THEN <<>> ELSE Drop(mant, dot)
        ev == ParseInt(expo)
        all == [i \in 1..(Len(ip) + Len(fp)) |->
                   DigitVal(IF i <= Len(ip) THEN ip[i] ELSE fp[i - Len(ip)])]
        lead == StripLeadingZeros(all)
        dig == StripTrailingZeros(lead)
    IN  IF lc = <<"n", "a", "n">> THEN [ok |-> TRUE, v |-> NaN]
        ELSE IF lc \in {<<"i", "n", "f">>, <<"i", "n", "f", "i", "n", "i", "t", "y">>}
        THEN [ok |-> TRUE, v |-> Inf(neg)]
        ELSE IF \/ ip \o fp = <<>>
                \/ \E i \in 1..Len(ip) : ~IsDigit(ip[i])
                \/ \E i \in 1..Len(fp) : ~IsDigit(fp[i])
                \/ ~ev.ok
        THEN [ok |-> FALSE, v |-> NaN]
        ELSE IF dig = <<>> THEN [ok |-> TRUE, v |-> Fin(neg, <<0>>, 0)]
        ELSE [ok |-> TRUE,
              v |-> Fin(neg, dig, Len(ip) - 1 + ev.v - (Len(all) - Len(lead)))]

\* f64::decode: the payload must be a float literal
f64_decode(b) ==
    LET r == extract_simple_frame_data(b, <<",">>)
        d == ParseF64(SimplePayload(b, r.end))
    IN  IF r.tag # "Ok" THEN DecErr(r.tag, b)
        ELSE IF ~d.ok THEN DecErr("Malformed", b)
        ELSE DecOk(Double(d.v), Drop(b, r.end + CRLF_LEN))

\* parse_length: the length header of a length-prefixed frame, up to its CRLF:
\* [tag, end, len], len = -1 for the null sentinel
parse_length(b) ==
    LET end == find_crlf(b)
        n == ParseInt(SubSeq(b, 2, end))
    IN  IF end < 0 THEN [tag |-> "Incomplete", end |-> 0, len |-> 0]
        ELSE IF ~n.ok \/ n.v < -1 THEN [tag |-> "Malformed", end |-> 0, len |-> 0]
        ELSE [tag |-> "Ok", end |-> end, len |-> n.v]

\* BulkString::decode (and its null sentinel $-1)
BulkString_decode(b) ==
    LET h == parse_length(b)
        start == h.end + CRLF_LEN
    IN  IF h.tag # "Ok" THEN DecErr(h.tag, b)
        ELSE IF h.len = -1 THEN DecOk(NullBulkString, Drop(b, start))
        ELSE IF Len(b) < start + h.len + CRLF_LEN THEN DecErr("Incomplete", b)
        ELSE DecOk(BulkString(SubSeq(b, start + 1, start + h.len)),
                   Drop(b, start + h.len + CRLF_LEN))

RECURSIVE decode(_)

\* n frames decoded one after another on a private cursor:
\* [tag, frames, rest]; the first failure ends the attempt
RECURSIVE decode_frames(_, _)
decode_frames(b, n) ==
    IF n = 0 THEN [tag |-> "Ok", frames |-> <<>>, rest |-> b]
    ELSE LET one == decode(b)
             more == decode_frames(one.rest, n - 1)
         IN  IF one.tag # "Ok" THEN [tag |-> one.tag, frames |-> <<>>, rest |-> b]
             ELSE IF more.tag # "Ok" THEN [tag |-> more.tag, frames |-> <<>>, rest |-> b]
             ELSE [tag |-> "Ok", frames |-> <<one.frame>> \o more.frames,
                   rest |-> more.rest]

\* n map entries (SimpleString key, then value) decoded on a private cursor:
\* [tag, map, rest]; a repeated key keeps its last value
RECURSIVE decode_entries(_, _, _)
decode_entries(b, n, m) ==
    IF n = 0 THEN [tag |-> "Ok", map |-> m, rest |-> b]
    ELSE LET key == SimpleString_decode(b)
             val == decode(key.rest)
             m2 == [x \in DOMAIN m \cup {key.frame.v} |->
                       IF x = key.frame.v THEN val.frame ELSE m[x]]
         IN  IF key.tag # "Ok" THEN [tag |-> key.tag, map |-> m, rest |-> b]
             ELSE IF val.tag # "Ok" THEN [tag |-> val.tag, map |-> m, rest |-> b]
             ELSE decode_entries(val.rest, n - 1, m2)

\* RespArray::decode (and its null sentinel *-1): the buffer is advanced
\* only when every element was decoded
RespArray_decode(b) ==
    LET h == parse_length(b)
        items == decode_frames(Drop(b, h.end + CRLF_LEN), h.len)
    IN  IF h.tag # "Ok" THEN DecErr(h.tag, b)
        ELSE IF h.len = -1 THEN DecOk(RespNullArray, Drop(b, h.end + CRLF_LEN))
        ELSE IF items.tag # "Ok" THEN DecErr(items.tag, b)
        ELSE DecOk(RespArray(items.frames), items.rest)

\* RespSet::decode
RespSet_decode(b) ==
    LET h == parse_length(b)
        items == decode_frames(Drop(b, h.end + CRLF_LEN), h.len)
    IN  IF h.tag # "Ok" THEN DecErr(h.tag, b)
        ELSE IF h.len = -1 THEN DecErr("Malformed", b)
        ELSE IF items.tag # "Ok" THEN DecErr(items.tag, b)
        ELSE DecOk(RespSet(items.frames), items.rest)

\* RespMap::decode
RespMap_decode(b) ==
    LET h == parse_length(b)
        entries == decode_entries(Drop(b, h.end + CRLF_LEN), h.len, <<>>)
    IN  IF h.tag # "Ok" THEN DecErr(h.tag, b)
        ELSE IF h.len = -1 THEN DecErr("Malformed", b)
        ELSE IF entries.tag # "Ok" THEN DecErr(entries.tag, b)
        ELSE DecOk(RespMap(entries.map), entries.rest)

\* RespFrame::decode: the first byte of the buffer selects the variant
decode(b) ==
    IF b = <<>> THEN DecErr("Incomplete", b)
    ELSE CASE Head(b) = "+" -> SimpleString_decode(b)
           [] Head(b) = "-" -> SimpleError_decode(b)
           [] Head(b) = ":" -> i64_decode(b)
           [] Head(b) = "$" -> BulkString_decode(b)
           [] Head(b) = "*" -> RespArray_decode(b)
           [] Head(b) = "_" -> RespNull_decode(b)
           [] Head(b) = "#" -> bool_decode(b)
           [] Head(b) = "," -> f64_decode(b)
           [] Head(b) = "%" -> RespMap_decode(b)
           [] Head(b) = "~" -> RespSet_decode(b)
           [] OTHER -> DecErr("Malformed", b)

----------------------------------------------------------------------------
(* The command parser: TryFrom<RespArray> / TryFrom<RespFrame>.  A result  *)
(* is [ok |-> TRUE, cmd] or [ok |-> FALSE, err]; an error is the           *)
(* CommandError variant with its message and the counts the message holds. *)

NoCount == -1
NoCmd == [t |-> "none"]

POk(c) == [ok |-> TRUE, cmd |-> c, err |-> [kind |-> "none", text |-> "", expected |-> NoCount, got |-> NoCount]]
PErr(kind, text, expected, actual) ==
    [ok |-> FALSE, cmd |-> NoCmd,
     err |-> [kind |-> kind, text |-> text, expected |-> expected, got |-> actual]]
NoResult == [ok |-> FALSE, cmd |-> NoCmd,
             err |-> [kind |-> "pending", text |-> "", expected |-> NoCount, got |-> NoCount]]

InvalidCommand(text, expected, actual) == PErr("InvalidCommand", text, expected, actual)
InvalidArgument(text, expected, actual) == PErr("InvalidArgument", text, expected, actual)
Utf8Error == PErr("Utf8Error", "invalid utf-8 sequence", NoCount, NoCount)

n_get == <<"g", "e", "t">>
n_set == <<"s", "e", "t">>
n_echo == <<"e", "c", "h", "o">>
n_hget == <<"h", "g", "e", "t">>
n_hset == <<"h", "s", "e", "t">>
n_hmget == <<"h", "m", "g", "e", "t">>
n_hgetall == <<"h", "g", "e", "t", "a", "l", "l">>
n_sadd == <<"s", "a", "d", "d">>
n_sismember == <<"s", "i", "s", "m", "e", "m", "b", "e", "r">>

\* validate_command, with the two error variants exchanged
validate_command_swapped(value, names, n_args) ==
    LET bad == {i \in 1..Len(names) :
                   \/ value[i].t # "BulkString"
                   \/ to_ascii_lowercase(value[i].v) # into_bytes(names[i])}
        i == CHOOSE j \in bad : \A o \in bad : j <= o
    IN  IF Len(value) # n_args + Len(names)
        THEN InvalidCommand("{} command must have exactly {} argument", n_args, NoCount)
        ELSE IF bad = {} THEN POk(NoCmd)
        ELSE IF value[i].t = "BulkString"
        THEN InvalidArgument("Invalid command: expected {}, got {}", NoCount, NoCount)
        ELSE InvalidArgument("Command must have a BulkString as the first argument",
                             NoCount, NoCount)

\* validate_command, comparing the name token as it is spelled
validate_command_exact(value, names, n_args) ==
    LET bad == {i \in 1..Len(names) :
                   \/ value[i].t # "BulkString"
                   \/ value[i].v # into_bytes(names[i])}
        i == CHOOSE j \in bad : \A o \in bad : j <= o
    IN  IF Len(value) # n_args + Len(names)
        THEN InvalidArgument("{} command must have exactly {} argument", n_args, NoCount)
        ELSE IF bad = {} THEN POk(NoCmd)
        ELSE IF value[i].t = "BulkString"
        THEN InvalidCommand("Invalid command: expected {}, got {}", NoCount, NoCount)
        ELSE InvalidCommand("Command must have a BulkString as the first argument",
                            NoCount, NoCount)

\* validate_command(value, names, n_args)
validate_command(value, names, n_args) ==
    LET bad == {i \in 1..Len(names) :
                   \/ value[i].t # "BulkString"
                   \/ to_ascii_lowercase(value[i].v) # into_bytes(names[i])}
        i == CHOOSE j \in bad : \A o \in bad : j <= o
    IN  IF Len(value) # n_args + Len(names)
        THEN InvalidArgument("{} command must have exactly {} argument", n_args, NoCount)
        ELSE IF bad = {} THEN POk(NoCmd)
        ELSE IF value[i].t = "BulkString"
        THEN InvalidCommand("Invalid command: expected {}, got {}", NoCount, NoCount)
        ELSE InvalidCommand("Command must have a BulkString as the first argument",
                            NoCount, NoCount)

\* extract_args(value, start): the elements after the first start ones
extract_args(value, start) == Drop(value, start)

\* the members loop of SAdd::try_from: every remaining argument becomes a
\* String, the first one that cannot decides the error
SAdd_members(args) ==
    LET bad == {i \in 1..Len(args) :
                   \/ args[i].t # "BulkString"
                   \/ ~String_from_utf8(args[i].v).ok}
        i == CHOOSE j \in bad : \A o \in bad : j <= o
    IN  IF bad = {}
        THEN [ok |-> TRUE, v |-> [j \in 1..Len(args) |-> String_from_utf8(args[j].v).v],
              err |-> POk(NoCmd)]
        ELSE IF args[i].t = "BulkString"
        THEN [ok |-> FALSE, v |-> <<>>, err |-> Utf8Error]
        ELSE [ok |-> FALSE, v |-> <<>>,
              err |-> InvalidArgument("Invalid key", NoCount, NoCount)]

\* SAdd::try_from, collecting the members in reverse
SAdd_try_from_reversed(value) ==
    LET len == Len(value)
        chk == validate_command(value, <<n_sadd>>, len - 1)
        args == extract_args(value, 1)
        key == String_from_utf8(args[1].v)
        ms == SAdd_members(Tail(args))
    IN  IF len = 0
        THEN InvalidCommand("sadd command does not accept null array", NoCount, NoCount)
        ELSE IF len \in 1..2
        THEN InvalidCommand("sadd command needs at least 2 argument, got {len}", 2, len)
        ELSE IF ~chk.ok THEN chk
        ELSE IF args[1].t # "BulkString"
        THEN InvalidArgument("Invalid key", NoCount, NoCount)
        ELSE IF ~key.ok THEN Utf8Error
        ELSE IF ~ms.ok THEN ms.err
        ELSE POk([t |-> "SAdd", key |-> key.v,
                  members |-> [j \in 1..Len(ms.v) |-> ms.v[Len(ms.v) + 1 - j]]])

\* impl TryFrom<RespArray> for SAdd
SAdd_try_from(value) ==
    LET len == Len(value)
        chk == validate_command(value, <<n_sadd>>, len - 1)
        args == extract_args(value, 1)
        key == String_from_utf8(args[1].v)
        ms == SAdd_members(Tail(args))
    IN  IF len = 0
        THEN InvalidCommand("sadd command does not accept null array", NoCount, NoCount)
        ELSE IF len \in 1..2
        THEN InvalidCommand("sadd command needs at least 2 argument, got {len}", 2, len)
        ELSE IF ~chk.ok THEN chk
        ELSE IF args[1].t # "BulkString"
        THEN InvalidArgument("Invalid key", NoCount, NoCount)
        ELSE IF ~key.ok THEN Utf8Error
        ELSE IF ~ms.ok THEN ms.err
        ELSE POk([t |-> "SAdd", key |-> key.v, members |-> ms.v])

\* SIsMember::try_from, converting the key and the member with from_utf8_lossy
SIsMember_try_from_lossy(value) ==
    LET chk == validate_command(value, <<n_sismember>>, 2)
        args == extract_args(value, 1)
    IN  IF ~chk.ok THEN chk
        ELSE IF args[1].t = "BulkString" /\ args[2].t = "BulkString"
        THEN POk([t |-> "SIsMember", key |-> String_from_utf8_lossy(args[1].v),
                  member |-> String_from_utf8_lossy(args[2].v)])
        ELSE InvalidArgument("Invalid key or value", NoCount, NoCount)

\* impl TryFrom<RespArray> for SIsMember
SIsMember_try_from(value) ==
    LET chk == validate_command(value, <<n_sismember>>, 2)
        args == extract_args(value, 1)
        key == String_from_utf8(args[1].v)
        member == String_from_utf8(args[2].v)
    IN  IF ~chk.ok THEN chk
        ELSE IF args[1].t = "BulkString" /\ args[2].t = "BulkString"
        THEN IF ~key.ok \/ ~member.ok THEN Utf8Error
             ELSE POk([t |-> "SIsMember", key |-> key.v, member |-> member.v])
        ELSE InvalidArgument("Invalid key or value", NoCount, NoCount)

\* a key, field or member argument: a BulkString holding valid UTF-8
TextArg(f) ==
    IF f.t # "BulkString"
    THEN [ok |-> FALSE, v |-> <<>>, err |-> InvalidArgument("Invalid key", NoCount, NoCount)]
    ELSE IF ~String_from_utf8(f.v).ok THEN [ok |-> FALSE, v |-> <<>>, err |-> Utf8Error]
    ELSE [ok |-> TRUE, v |-> String_from_utf8(f.v).v, err |-> POk(NoCmd)]

\* Get::try_from: GET key
Get_try_from(value) ==
    LET chk == validate_command(value, <<n_get>>, 1)
        key == TextArg(value[2])
    IN  IF ~chk.ok THEN chk
        ELSE IF ~key.ok THEN key.err
        ELSE POk([t |-> "Get", key |-> key.v])

\* Set::try_from: SET key value
Set_try_from(value) ==
    LET chk == validate_command(value, <<n_set>>, 2)
        key == TextArg(value[2])
    IN  IF ~chk.ok THEN chk
        ELSE IF ~key.ok THEN key.err
        ELSE POk([t |-> "Set", key |-> key.v, value |-> value[3]])

\* Echo::try_from: ECHO message
Echo_try_from(value) ==
    LET chk == validate_command(value, <<n_echo>>, 1)
        msg == TextArg(value[2])
    IN  IF ~chk.ok THEN chk
        ELSE IF ~msg.ok THEN msg.err
        ELSE POk([t |-> "Echo", message |-> msg.v])

\* HGet::try_from: HGET key field
HGet_try_from(value) ==
    LET chk == validate_command(value, <<n_hget>>, 2)
        key == TextArg(value[2])
        field == TextArg(value[3])
    IN  IF ~chk.ok THEN chk
        ELSE IF ~key.ok THEN key.err
        ELSE IF ~field.ok THEN field.err
        ELSE POk([t |-> "HGet", key |-> key.v, field |-> field.v])

\* HSet::try_from: HSET key field value
HSet_try_from(value) ==
    LET chk == validate_command(value, <<n_hset>>, 3)
        key == TextArg(value[2])
        field == TextArg(value[3])
    IN  IF ~chk.ok THEN chk
        ELSE IF ~key.ok THEN key.err
        ELSE IF ~field.ok THEN field.err
        ELSE POk([t |-> "HSet", key |-> key.v, field |-> field.v, value |-> value[4]])

\* HGetAll::try_from: HGETALL key
HGetAll_try_from(value) ==
    LET chk == validate_command(value, <<n_hgetall>>, 1)
        key == TextArg(value[2])
    IN  IF ~chk.ok THEN chk
        ELSE IF ~key.ok THEN key.err
        ELSE POk([t |-> "HGetAll", key |-> key.v, sort |-> FALSE])

\* HMGet::try_from: HMGET key field [field ...]
HMGet_try_from(value) ==
    LET len == Len(value)
        chk == validate_command(value, <<n_hmget>>, len - 1)
        key == TextArg(value[2])
        fs == SAdd_members(Drop(value, 2))
    IN  IF len <= 2
        THEN InvalidCommand("hmget command needs at least 2 argument, got {len}", 2, len)
        ELSE IF ~chk.ok THEN chk
        ELSE IF ~key.ok THEN key.err
        ELSE IF ~fs.ok THEN fs.err
        ELSE POk([t |-> "HMGet", hash |-> key.v, fields |-> fs.v])

\* Command::try_from(RespArray), with every array it does not know taken for
\* Unrecognized
Command_try_from_array_lenient(v) ==
    IF v # <<>> /\ v[1].t = "BulkString"
    THEN LET name == to_ascii_lowercase(v[1].v)
         IN  CASE name = n_get -> Get_try_from(v)
               [] name = n_set -> Set_try_from(v)
               [] name = n_echo -> Echo_try_from(v)
               [] name = n_hget -> HGet_try_from(v)
               [] name = n_hset -> HSet_try_from(v)
               [] name = n_hmget -> HMGet_try_from(v)
               [] name = n_hgetall -> HGetAll_try_from(v)
               [] name = n_sadd -> SAdd_try_from(v)
               [] name = n_sismember -> SIsMember_try_from(v)
               [] OTHER -> POk([t |-> "Unrecognized"])
    ELSE POk([t |-> "Unrecognized"])

\* impl TryFrom<RespArray> for Command: dispatch on the lowercased first element
Command_try_from_array(v) ==
    IF v # <<>> /\ v[1].t = "BulkString"
    THEN LET name == to_ascii_lowercase(v[1].v)
         IN  CASE name = n_get -> Get_try_from(v)
               [] name = n_set -> Set_try_from(v)
               [] name = n_echo -> Echo_try_from(v)
               [] name = n_hget -> HGet_try_from(v)
               [] name = n_hset -> HSet_try_from(v)
               [] name = n_hmget -> HMGet_try_from(v)
               [] name = n_hgetall -> HGetAll_try_from(v)
               [] name = n_sadd -> SAdd_try_from(v)
               [] name = n_sismember -> SIsMember_try_from(v)
               [] OTHER -> POk([t |-> "Unrecognized"])
    ELSE InvalidCommand("Command must have a BulkString as the first argument",
                        NoCount, NoCount)

\* impl TryFrom<RespFrame> for Command
Command_try_from(f) ==
    IF f.t = "Array" THEN Command_try_from_array(f.fs)
    ELSE InvalidCommand("Command must be an Array", NoCount, NoCount)

----------------------------------------------------------------------------
(* The backend store and the executor.  The store holds three tables, each *)
(* a function from the keys present in it.                                 *)

EmptyStore == [map |-> <<>>, hmap |-> <<>>, hset |-> <<>>]

\* a table with key k bound to value x
Put(tbl, k, x) == [y \in DOMAIN tbl \cup {k} |-> IF y = k THEN x ELSE tbl[y]]

RESP_OK == SimpleString(<<"O", "K">>)

\* Backend::sadd: insert the member into the key's set (created when absent)
\* and tell whether it was new, in one atomic operation
backend_sadd(st, key, member) ==
    LET old == IF key \in DOMAIN st.hset THEN st.hset[key] ELSE {}
    IN  [store |-> [st EXCEPT !.hset = Put(st.hset, key, old \cup {member})],
         ret |-> member \notin old]

\* Backend::sismember: an absent key is an empty set
backend_sismember(st, key, member) ==
    key \in DOMAIN st.hset /\ member \in st.hset[key]

\* SAdd::execute, one member: every insertion is reported as new
SAdd_execute_one_always_new(st, c, items) ==
    LET r == backend_sadd(st, c.key, c.members[Len(items) + 1])
    IN  [store |-> r.store, items |-> Append(items, Integer(1))]

\* SAdd::execute, one member: the members are taken from the last to the first
SAdd_execute_one_backwards(st, c, items) ==
    LET r == backend_sadd(st, c.key, c.members[Len(c.members) - Len(items)])
    IN  [store |-> r.store, items |-> Append(items, Integer(IF r.ret THEN 1 ELSE 0))]

\* SAdd::execute, one turn: all the members are inserted in one backend call
\* and the result for the next member is collected
SAdd_execute_one_whole(st, c, items) ==
    LET r == backend_sadd(st, c.key, c.members[Len(items) + 1])
        old == IF c.key \in DOMAIN st.hset THEN st.hset[c.key] ELSE {}
    IN  [store |-> [st EXCEPT !.hset = Put(st.hset, c.key, old \cup Range(c.members))],
         items |-> Append(items, Integer(IF r.ret THEN 1 ELSE 0))]

\* SAdd::execute, one turn of its iterator: the next member is inserted and
\* the result mapped to an Integer frame
SAdd_execute_one(st, c, items) ==
    LET r == backend_sadd(st, c.key, c.members[Len(items) + 1])
    IN  [store |-> r.store, items |-> Append(items, Integer(IF r.ret THEN 1 ELSE 0))]

\* SIsMember::execute, looking the member up under any key
SIsMember_execute_any_key(st, c) ==
    Integer(IF \E k \in DOMAIN st.hset : backend_sismember(st, k, c.member)
            THEN 1 ELSE 0)

\* SIsMember::execute, giving no frame for a key that holds a scalar or a hash
SIsMember_execute_one_type(st, c) ==
    IF c.key \in DOMAIN st.map \cup DOMAIN st.hmap THEN NoFrame
    ELSE Integer(IF backend_sismember(st, c.key, c.member) THEN 1 ELSE 0)

\* impl CommandExecutor for SIsMember
SIsMember_execute(st, c) ==
    Integer(IF backend_sismember(st, c.key, c.member) THEN 1 ELSE 0)

\* Unrecognized::execute, replying Null
Unrecognized_execute_null == RespNull

\* impl CommandExecutor for Unrecognized
Unrecognized_execute == RESP_OK

\* Backend::get / set / hget / hset / hgetall
backend_get(st, key) == IF key \in DOMAIN st.map THEN st.map[key] ELSE NoFrame

\* Backend::set, keeping the value of a key that has one
backend_set_once(st, key, value) ==
    IF key \in DOMAIN st.map THEN st ELSE [st EXCEPT !.map = Put(st.map, key, value)]

\* Backend::set, the key's entry becoming a scalar: its set is dropped
backend_set_retyping(st, key, value) ==
    [st EXCEPT !.map = Put(st.map, key, value),
               !.hset = [k \in DOMAIN st.hset \ {key} |-> st.hset[k]]]

backend_set(st, key, value) == [st EXCEPT !.map = Put(st.map, key, value)]

backend_hget(st, key, field) ==
    IF key \in DOMAIN st.hmap /\ field \in DOMAIN st.hmap[key]
    THEN st.hmap[key][field] ELSE NoFrame

\* Backend::hset, storing a hash that holds the one field
backend_hset_replacing(st, key, field, value) ==
    [st EXCEPT !.hmap = Put(st.hmap, key, Put(<<>>, field, value))]

backend_hset(st, key, field, value) ==
    LET old == IF key \in DOMAIN st.hmap THEN st.hmap[key] ELSE <<>>
    IN  [st EXCEPT !.hmap = Put(st.hmap, key, Put(old, field, value))]

backend_hgetall(st, key) == IF key \in DOMAIN st.hmap THEN st.hmap[key] ELSE <<>>

OrNull(f) == IF f = NoFrame THEN RespNull ELSE f

Get_execute(st, c) == OrNull(backend_get(st, c.key))

Echo_execute(c) == BulkString(into_bytes(c.message))

HGet_execute(st, c) == OrNull(backend_hget(st, c.key, c.field))

HGetAll_execute(st, c) == RespMap(backend_hgetall(st, c.key))

\* HMGet::execute, leaving out the fields the hash does not hold
HMGet_execute_present_only(st, c) ==
    LET present == SelectSeq(c.fields, LAMBDA f : backend_hget(st, c.hash, f) # NoFrame)
    IN  RespArray([i \in 1..Len(present) |-> backend_hget(st, c.hash, present[i])])

HMGet_execute(st, c) ==
    RespArray([i \in 1..Len(c.fields) |-> OrNull(backend_hget(st, c.hash, c.fields[i]))])

----------------------------------------------------------------------------
(* The connection handlers: each receives a frame, parses it and executes  *)
(* the command against the shared store.  A backend call is one step.      *)

Handlers == {"h1", "h2"}
MaxCmds == 3
MaxMembers == 2

Keys == {<<"k">>, <<"j">>}
Members == {<<"a">>, <<"b">>}
Fields == {<<"f">>, <<"g">>}

SeqsUpTo(S, n) == UNION {[1..m -> S] : m \in 0..n}

\* the array a client sends for a command: the name, then the arguments
Request(name, args) ==
    RespArray(<<BulkString(name)>> \o [i \in 1..Len(args) |-> BulkString(args[i])])

CmdFrames ==
    {Request(n_sadd, <<<<"k">>>> \o ms) : ms \in SeqsUpTo(Members, MaxMembers)}
    \cup {Request(n_sismember, <<<<"k">>, m>>) : m \in Members}
    \cup {Request(n_sadd, <<<<"j">>, <<"a">>>>),
          Request(n_sismember, <<<<"j">>, <<"a">>>>),
          Request(<<"S", "A", "D", "D">>, <<<<"k">>, <<"a">>>>),
          Request(<<"f", "o", "o">>, <<>>),
          Request(n_sismember, <<<<"k">>>>),
          Integer(1),
          Request(n_get, <<<<"k">>>>),
          RespArray(<<BulkString(n_set), BulkString(<<"k">>), Integer(1)>>),
          Request(n_echo, <<<<"a">>>>),
          Request(n_hget, <<<<"k">>, <<"f">>>>),
          RespArray(<<BulkString(n_hset), BulkString(<<"k">>), BulkString(<<"f">>),
                      BulkString(<<"a">>)>>),
          Request(n_hgetall, <<<<"k">>>>),
          Request(n_hmget, <<<<"k">>, <<"f">>, <<"g">>>>)}

\* the frames of the clients that use the scalar and the hash commands
KvFrames ==
    {Request(n_get, <<<<"k">>>>),
     Request(n_get, <<<<"j">>>>),
     RespArray(<<BulkString(n_set), BulkString(<<"k">>), Integer(1)>>),
     Request(n_set, <<<<"k">>, <<"b">>>>),
     Request(n_hset, <<<<"k">>, <<"f">>, <<"a">>>>),
     Request(n_hset, <<<<"k">>, <<"f">>, <<"b">>>>),
     Request(n_hset, <<<<"k">>, <<"g">>, <<"b">>>>),
     Request(n_hget, <<<<"k">>, <<"f">>>>),
     Request(n_hget, <<<<"k">>, <<"g">>>>),
     Request(n_hget, <<<<"j">>, <<"f">>>>),
     Request(n_hmget, <<<<"k">>, <<"f">>, <<"g">>, <<"x">>>>),
     Request(n_hmget, <<<<"k">>, <<"g">>, <<"f">>>>),
     Request(n_hmget, <<<<"j">>, <<"f">>>>),
     Request(n_hgetall, <<<<"k">>>>)}

\* what the parser makes of each frame a client may send
Parsed == [f \in CmdFrames \cup KvFrames |-> Command_try_from(f)]

\* the handlers are idle and the store is st, written by the commands that
\* the histories hold
CmdStart(st) ==
    /\ store = st
    /\ pc = [h \in Handlers |-> "idle"]
    /\ cmd = [h \in Handlers |-> NoResult]
    /\ acc = [h \in Handlers |-> <<>>]
    /\ reply = [h \in Handlers |-> NoFrame]
    /\ added = UNION {{<<k, m>> : m \in st.hset[k]} : k \in DOMAIN st.hset}
    /\ fresh = [h \in Handlers |-> <<>>]
    /\ atRecv = [h \in Handlers |-> {}]
    /\ hist = [set |-> st.map,
               hset |-> [kf \in UNION {{<<k, f>> : f \in DOMAIN st.hmap[k]} :
                                           k \in DOMAIN st.hmap}
                            |-> st.hmap[kf[1]][kf[2]]]]
    /\ ncmds = 0

CmdInit == CmdStart(EmptyStore)

\* a frame arrives and is parsed; a frame that fails to parse resets the store
Recv_resetting(h, f) ==
    /\ pc[h] \in {"idle", "done"}
    /\ ncmds < MaxCmds
    /\ LET r == Parsed[f]
       IN  /\ cmd' = [cmd EXCEPT ![h] = r]
           /\ pc' = [pc EXCEPT ![h] = IF r.ok THEN "exec" ELSE "done"]
           /\ atRecv' = [atRecv EXCEPT ![h] =
                           IF r.ok /\ r.cmd.t = "SAdd" /\ r.cmd.key \in DOMAIN store.hset
                           THEN store.hset[r.cmd.key] ELSE {}]
           /\ store' = IF r.ok THEN store ELSE EmptyStore
    /\ acc' = [acc EXCEPT ![h] = <<>>]
    /\ reply' = [reply EXCEPT ![h] = NoFrame]
    /\ fresh' = [fresh EXCEPT ![h] = <<>>]
    /\ ncmds' = ncmds + 1
    /\ UNCHANGED <<added, hist>>

\* a frame arrives and is parsed; a CommandError ends the command
Recv(h, f) ==
    /\ pc[h] \in {"idle", "done"}
    /\ ncmds < MaxCmds
    /\ LET r == Parsed[f]
       IN  /\ cmd' = [cmd EXCEPT ![h] = r]
           /\ pc' = [pc EXCEPT ![h] = IF r.ok THEN "exec" ELSE "done"]
           /\ atRecv' = [atRecv EXCEPT ![h] =
                           IF r.ok /\ r.cmd.t = "SAdd" /\ r.cmd.key \in DOMAIN store.hset
                           THEN store.hset[r.cmd.key] ELSE {}]
    /\ acc' = [acc EXCEPT ![h] = <<>>]
    /\ reply' = [reply EXCEPT ![h] = NoFrame]
    /\ fresh' = [fresh EXCEPT ![h] = <<>>]
    /\ ncmds' = ncmds + 1
    /\ UNCHANGED <<store, added, hist>>

Running(h, t) == pc[h] = "exec" /\ cmd[h].cmd.t = t

\* a command that runs in one step ends with this reply
Finish(h, st, r) ==
    /\ store' = st
    /\ reply' = [reply EXCEPT ![h] = r]
    /\ pc' = [pc EXCEPT ![h] = "done"]
    /\ UNCHANGED <<cmd, acc, atRecv, ncmds>>

\* SAdd::execute: the next member is inserted; after the last one the
\* collected integers are the reply
SAddStep(h) ==
    /\ Running(h, "SAdd")
    /\ LET c == cmd[h].cmd
           m == c.members[Len(acc[h]) + 1]
           r == SAdd_execute_one(store, c, acc[h])
           last == Len(r.items) = Len(c.members)
       IN  /\ store' = r.store
           /\ acc' = [acc EXCEPT ![h] = r.items]
           /\ added' = added \cup {<<c.key, m>>}
           /\ fresh' = [fresh EXCEPT ![h] = Append(@, <<c.key, m>> \notin added)]
           /\ reply' = [reply EXCEPT ![h] = IF last THEN RespArray(r.items) ELSE @]
           /\ pc' = [pc EXCEPT ![h] = IF last THEN "done" ELSE @]
    /\ UNCHANGED <<cmd, atRecv, hist, ncmds>>

SIsMemberExec(h) ==
    /\ Running(h, "SIsMember")
    /\ Finish(h, store, SIsMember_execute(store, cmd[h].cmd))
    /\ fresh' = [fresh EXCEPT ![h] = <<<<cmd[h].cmd.key, cmd[h].cmd.member>> \notin added>>]
    /\ UNCHANGED <<added, hist>>

UnrecognizedExec(h) ==
    /\ Running(h, "Unrecognized")
    /\ Finish(h, store, Unrecognized_execute)
    /\ UNCHANGED <<added, fresh, hist>>

GetExec(h) ==
    /\ Running(h, "Get")
    /\ Finish(h, store, Get_execute(store, cmd[h].cmd))
    /\ UNCHANGED <<added, fresh, hist>>

SetExec(h) ==
    /\ Running(h, "Set")
    /\ Finish(h, backend_set(store, cmd[h].cmd.key, cmd[h].cmd.value), RESP_OK)
    /\ hist' = [hist EXCEPT !.set = Put(@, cmd[h].cmd.key, cmd[h].cmd.value)]
    /\ UNCHANGED <<added, fresh>>

EchoExec(h) ==
    /\ Running(h, "Echo")
    /\ Finish(h, store, Echo_execute(cmd[h].cmd))
    /\ UNCHANGED <<added, fresh, hist>>

HGetExec(h) ==
    /\ Running(h, "HGet")
    /\ Finish(h, store, HGet_execute(store, cmd[h].cmd))
    /\ UNCHANGED <<added, fresh, hist>>

HSetExec(h) ==
    /\ Running(h, "HSet")
    /\ Finish(h, backend_hset(store, cmd[h].cmd.key, cmd[h].cmd.field, cmd[h].cmd.value),
              RESP_OK)
    /\ hist' = [hist EXCEPT !.hset = Put(@, <<cmd[h].cmd.key, cmd[h].cmd.field>>,
                                          cmd[h].cmd.value)]
    /\ UNCHANGED <<added, fresh>>

HGetAllExec(h) ==
    /\ Running(h, "HGetAll")
    /\ Finish(h, store, HGetAll_execute(store, cmd[h].cmd))
    /\ UNCHANGED <<added, fresh, hist>>

HMGetExec(h) ==
    /\ Running(h, "HMGet")
    /\ Finish(h, store, HMGet_execute(store, cmd[h].cmd))
    /\ UNCHANGED <<added, fresh, hist>>

----------------------------------------------------------------------------
(* The command parser applied to one input frame *)

MaxArgs == 3

CommandNames ==
    {n_get, n_set, n_echo, n_hget, n_hset, n_hmget, n_hgetall, n_sadd, n_sismember}

\* the lowercase name n with the letters at the positions U in upper case
Spell(n, U) ==
    [i \in 1..Len(n) |->
        IF i \in U THEN UpperCase[CHOOSE j \in 1..Len(LowerCase) : LowerCase[j] = n[i]]
        ELSE n[i]]

\* spellings of a name: lower case, upper case, capitalised, alternating
Spellings(n) ==
    {Spell(n, {}), Spell(n, 1..Len(n)), Spell(n, {1}),
     Spell(n, {i \in 1..Len(n) : i % 2 = 0})}

NameElems ==
    {BulkString(sp) : sp \in UNION {Spellings(n) : n \in CommandNames \cup {<<"f", "o", "o">>}}}
    \cup {Integer(1)}

ArgElems ==
    {BulkString(<<"k">>), BulkString(<<"a">>), BulkString(<<"b">>), BulkString(<<FF>>),
     Integer(1)}

ParseArrays ==
    {RespArray(<<>>)}
    \cup {RespArray(<<n>> \o args) : n \in NameElems, args \in SeqsUpTo(ArgElems, MaxArgs)}

ParseInputs == ParseArrays \cup {Integer(1), BulkString(n_sadd), RespNull, RespNullArray}

ParseIdle ==
    /\ pin = NoFrame
    /\ ptarget = "none"
    /\ pout = NoResult

ParseInit ==
    /\ ptarget \in {"Command", "SAdd", "SIsMember"}
    /\ pin \in IF ptarget = "Command" THEN ParseInputs ELSE ParseArrays
    /\ pout = NoResult

\* the stores a frame may meet: the empty one, and one that SET k 1,
\* HSET k a b and SADD k a have written
SampleStores ==
    {EmptyStore,
     [map |-> Put(<<>>, <<"k">>, Integer(1)),
      hmap |-> Put(<<>>, <<"k">>, Put(<<>>, <<"a">>, BulkString(<<"b">>))),
      hset |-> Put(<<>>, <<"k">>, {<<"a">>})]}

\* the handler that serves the connection whose frame is parsed
Server == CHOOSE h \in Handlers : TRUE

\* the command the parser returned goes to execution; a CommandError does not
Dispatch ==
    /\ ptarget = "Command"
    /\ pout.ok
    /\ pc[Server] = "idle"
    /\ cmd' = [cmd EXCEPT ![Server] = pout]
    /\ pc' = [pc EXCEPT ![Server] = "exec"]
    /\ atRecv' = [atRecv EXCEPT ![Server] =
                    IF pout.cmd.t = "SAdd" /\ pout.cmd.key \in DOMAIN store.hset
                    THEN store.hset[pout.cmd.key] ELSE {}]
    /\ ncmds' = ncmds + 1
    /\ UNCHANGED <<store, acc, reply, added, fresh, hist>>

\* frame.try_into() for the target type
Parse ==
    /\ pout = NoResult
    /\ pout' = CASE ptarget = "Command" -> Command_try_from(pin)
                 [] ptarget = "SAdd" -> SAdd_try_from(pin.fs)
                 [] ptarget = "SIsMember" -> SIsMember_try_from(pin.fs)
    /\ UNCHANGED <<pin, ptarget>>

----------------------------------------------------------------------------
(* The decoder applied to a connection's receive buffer: the caller        *)
(* appends the bytes it reads and calls decode again.                      *)

\* the last decode call: the decoder called, the buffer before, the result and
\* the buffer after, and the result of the call before it
NoCall == [by |-> "none", pre |-> <<>>, tag |-> "none", frame |-> NoFrame, post |-> <<>>,
           prev |-> "none"]

E1 == SimpleError(<<"E">>)

DecFrames ==
    {SimpleString(<<"O", "K">>), SimpleString(<<>>),
     E1, SimpleError(<<"e", "r">>), SimpleError(<<>>),
     Integer(0), Integer(-12), Integer(7),
     BulkString(<<"a">>), BulkString(<<>>), BulkString(<<"a", CR, LF>>), BulkString(<<FF>>),
     NullBulkString,
     RespArray(<<>>), RespArray(<<Integer(1), E1>>),
     RespArray(<<BulkString(<<"a">>), RespArray(<<E1>>)>>),
     RespNullArray, RespNull, Boolean(TRUE), Boolean(FALSE),
     Double(Fin(FALSE, <<1, 5>>, 0)), Double(Fin(TRUE, <<1, 5>>, -9)),
     Double(Fin(FALSE, <<1>>, 8)), Double(Fin(FALSE, <<1, 2>>, 8)),
     Double(Fin(FALSE, <<0>>, 0)), Double(Fin(TRUE, <<2, 5>>, -2)),
     Double(Inf(FALSE)), Double(NaN),
     RespMap(<<>>),
     RespMap([x \in {<<"h">>, <<"f">>} |-> IF x = <<"h">> THEN E1 ELSE Integer(1)]),
     RespSet(<<E1, Boolean(TRUE)>>)}

PairFrames == {E1, SimpleError(<<>>), Integer(7), BulkString(<<"a">>),
               RespArray(<<Integer(1), E1>>)}

JunkBytes == {"x", FF}

\* the bytes bs with byte i replaced by c
Corrupt(bs, i, c) == [j \in 1..Len(bs) |-> IF j = i THEN c ELSE bs[j]]

\* the byte streams a connection delivers: the encodings of one or two
\* frames, or an encoding with one byte damaged
Streams ==
    {[sent |-> <<f>>, wire |-> encode(f)] : f \in DecFrames}
    \cup {[sent |-> <<f, g>>, wire |-> encode(f) \o encode(g)] :
              f \in PairFrames, g \in PairFrames}
    \cup UNION {{[sent |-> <<>>, wire |-> Corrupt(encode(f), i, c)] :
                     i \in 1..Len(encode(f)), c \in JunkBytes} : f \in DecFrames}

DecIdle ==
    /\ wire = <<>>
    /\ sent = <<>>
    /\ buf = <<>>
    /\ got = <<>>
    /\ call = NoCall
    /\ retryOf = "none"
    /\ dirty = FALSE

DecInit ==
    /\ \E st \in Streams : sent = st.sent /\ wire = st.wire
    /\ buf = <<>>
    /\ got = <<>>
    /\ call = NoCall
    /\ retryOf = "none"
    /\ dirty = FALSE

\* the caller reads n more bytes from the network into the buffer
DecRead ==
    /\ \E n \in 1..Len(wire) :
          /\ buf' = buf \o Take(wire, n)
          /\ wire' = Drop(wire, n)
    /\ dirty' = TRUE
    /\ UNCHANGED <<sent, got, call, retryOf>>

\* a decode call on the buffer, and what it leaves of the buffer; a failed
\* call on an untouched buffer is retried at most once
DecCall(by, r) ==
    /\ dirty \/ retryOf = "none"
    /\ buf' = r.rest
    /\ got' = IF r.tag = "Ok" THEN Append(got, r.frame) ELSE got
    /\ call' = [by |-> by, pre |-> buf, tag |-> r.tag, frame |-> r.frame, post |-> r.rest,
                prev |-> call.tag]
    /\ retryOf' = IF ~dirty /\ call.by = by /\ call.tag \in {"Incomplete", "Malformed"}
                  THEN call.tag ELSE "none"
    /\ dirty' = FALSE
    /\ UNCHANGED <<wire, sent>>

\* RespFrame::decode(&mut buf)
DecodeFrame == DecCall("RespFrame", decode(buf))

\* SimpleError::decode(&mut buf)
DecodeSimpleError == DecCall("SimpleError", SimpleError_decode(buf))

----------------------------------------------------------------------------
(* The encoder applied to a frame that is written to a connection *)

MaxExp == 10
MaxElems == 3

\* the digits of the doubles encoded
EncDigits == {<<1>>, <<1, 5>>, <<9, 9>>, <<1, 2, 3, 4, 5, 6>>}

EncDoubles ==
    {Double(Fin(neg, dig, exp)) : neg \in BOOLEAN, dig \in EncDigits, exp \in -MaxExp..MaxExp}
    \cup {Double(Fin(FALSE, <<0>>, 0)), Double(Fin(TRUE, <<0>>, 0)),
          Double(Inf(FALSE)), Double(Inf(TRUE)), Double(NaN)}

\* the elements and the keys of the composite frames encoded
EncElems == {Integer(1), E1, BulkString(<<"a", "b">>)}
EncKeys == {<<"h">>, <<"f">>, <<"h", "a">>}

EncFrames ==
    EncDoubles
    \cup {RespArray(fs) : fs \in SeqsUpTo(EncElems, MaxElems)}
    \cup {RespSet(fs) : fs \in SeqsUpTo(EncElems, MaxElems)}
    \cup {RespMap(m) : m \in UNION {[ks -> EncElems] : ks \in SUBSET EncKeys}}
    \cup {RespArray(<<RespArray(<<Integer(1), E1>>), RespMap(<<>>)>>)}

EncInit ==
    /\ \E f \in EncFrames : sent = <<f>>
    /\ wire = <<>>
    /\ buf = <<>>
    /\ got = <<>>
    /\ call = NoCall
    /\ retryOf = "none"
    /\ dirty = FALSE

\* frame.encode(): the bytes of the frame go to the connection
EncodeFrame ==
    /\ wire = <<>>
    /\ wire' = encode(sent[1])
    /\ UNCHANGED <<sent, buf, got, call, retryOf, dirty>>

----------------------------------------------------------------------------
(* The specifications *)

Init == CmdInit /\ ParseIdle /\ DecIdle

Next ==
    \/ \E h \in Handlers, f \in CmdFrames : Recv(h, f) /\ UNCHANGED <<parseVars, decVars>>
    \/ \E h \in Handlers : SAddStep(h) /\ UNCHANGED <<parseVars, decVars>>
    \/ \E h \in Handlers : SIsMemberExec(h) /\ UNCHANGED <<parseVars, decVars>>
    \/ \E h \in Handlers : UnrecognizedExec(h) /\ UNCHANGED <<parseVars, decVars>>
    \/ \E h \in Handlers : GetExec(h) /\ UNCHANGED <<parseVars, decVars>>
    \/ \E h \in Handlers : SetExec(h) /\ UNCHANGED <<parseVars, decVars>>
    \/ \E h \in Handlers : EchoExec(h) /\ UNCHANGED <<parseVars, decVars>>
    \/ \E h \in Handlers : HGetExec(h) /\ UNCHANGED <<parseVars, decVars>>
    \/ \E h \in Handlers : HSetExec(h) /\ UNCHANGED <<parseVars, decVars>>
    \/ \E h \in Handlers : HGetAllExec(h) /\ UNCHANGED <<parseVars, decVars>>
    \/ \E h \in Handlers : HMGetExec(h) /\ UNCHANGED <<parseVars, decVars>>

\* the command layer: handlers executing commands on the shared store
Spec == Init /\ [][Next]_vars

KvNext ==
    \/ \E h \in Handlers, f \in KvFrames : Recv(h, f) /\ UNCHANGED <<parseVars, decVars>>
    \/ \E h \in Handlers : GetExec(h) /\ UNCHANGED <<parseVars, decVars>>
    \/ \E h \in Handlers : SetExec(h) /\ UNCHANGED <<parseVars, decVars>>
    \/ \E h \in Handlers : HGetExec(h) /\ UNCHANGED <<parseVars, decVars>>
    \/ \E h \in Handlers : HSetExec(h) /\ UNCHANGED <<parseVars, decVars>>
    \/ \E h \in Handlers : HGetAllExec(h) /\ UNCHANGED <<parseVars, decVars>>
    \/ \E h \in Handlers : HMGetExec(h) /\ UNCHANGED <<parseVars, decVars>>

\* the command layer under clients that use the scalar and the hash commands
KvSpec == Init /\ [][KvNext]_vars

ParseSpecInit ==
    /\ \E st \in SampleStores : CmdStart(st)
    /\ ParseInit
    /\ ptarget # "Command" => store = EmptyStore
    /\ DecIdle

ParseSpecNext ==
    \/ Parse /\ UNCHANGED <<cmdVars, decVars>>
    \/ Dispatch /\ UNCHANGED <<pin, ptarget, pout, decVars>>
    \/ SAddStep(Server) /\ UNCHANGED <<parseVars, decVars>>
    \/ SIsMemberExec(Server) /\ UNCHANGED <<parseVars, decVars>>
    \/ UnrecognizedExec(Server) /\ UNCHANGED <<parseVars, decVars>>
    \/ GetExec(Server) /\ UNCHANGED <<parseVars, decVars>>
    \/ SetExec(Server) /\ UNCHANGED <<parseVars, decVars>>
    \/ EchoExec(Server) /\ UNCHANGED <<parseVars, decVars>>
    \/ HGetExec(Server) /\ UNCHANGED <<parseVars, decVars>>
    \/ HSetExec(Server) /\ UNCHANGED <<parseVars, decVars>>
    \/ HGetAllExec(Server) /\ UNCHANGED <<parseVars, decVars>>
    \/ HMGetExec(Server) /\ UNCHANGED <<parseVars, decVars>>

\* the command parser on every input of ParseInputs, and the execution of the
\* command it returns
ParseSpec == ParseSpecInit /\ [][ParseSpecNext]_vars

DecSpecInit == CmdInit /\ ParseIdle /\ DecInit

DecSpecNext ==
    \/ DecRead /\ UNCHANGED <<cmdVars, parseVars>>
    \/ DecodeFrame /\ UNCHANGED <<cmdVars, parseVars>>
    \/ DecodeSimpleError /\ UNCHANGED <<cmdVars, parseVars>>

\* the decoder on every stream of Streams
DecSpec == DecSpecInit /\ [][DecSpecNext]_vars

EncSpecInit == CmdInit /\ ParseIdle /\ EncInit

EncSpecNext == EncodeFrame /\ UNCHANGED <<cmdVars, parseVars>>

\* the encoder on every frame of EncFrames
EncSpec == EncSpecInit /\ [][EncSpecNext]_vars

----------------------------------------------------------------------------
(* Properties of the command layer (checked under Spec) *)

IsCmd(h, t) == pc[h] \in {"exec", "done"} /\ cmd[h].ok /\ cmd[h].cmd.t = t

Bit(b) == Integer(IF b THEN 1 ELSE 0)

\* position of the first occurrence of m in the sequence ms (0: none)
FirstAt(ms, m) == FirstIn(ms, {m})

\* C1: SADD replies one integer per member, in input order; the i-th is 1
\* exactly when no earlier insertion (of an earlier command, or of an earlier
\* member of this call) had put that member into the key's set, else 0; so a
\* member repeated in one call gets 0 at its later occurrences.
C1_SAddReply ==
    \A h \in Handlers :
        IsCmd(h, "SAdd") =>
            LET c == cmd[h].cmd
            IN  /\ Len(acc[h]) = Len(fresh[h])
                /\ Len(acc[h]) <= Len(c.members)
                /\ \A i \in 1..Len(acc[h]) : acc[h][i] = Bit(fresh[h][i])
                /\ \A i, j \in 1..Len(acc[h]) :
                       i < j /\ c.members[i] = c.members[j] => acc[h][j] = Integer(0)
                /\ pc[h] = "done" =>
                       /\ Len(acc[h]) = Len(c.members)
                       /\ reply[h] = RespArray(acc[h])

\* C1, its case: SADD k a a has replied [1, 0] and a later SADD k a replied [0]
C1_Witness ==
    \E h, g \in Handlers :
        /\ pc[h] = "done" /\ pc[g] = "done"
        /\ cmd[h].cmd = [t |-> "SAdd", key |-> <<"k">>, members |-> <<<<"a">>, <<"a">>>>]
        /\ reply[h] = RespArray(<<Integer(1), Integer(0)>>)
        /\ cmd[g].cmd = [t |-> "SAdd", key |-> <<"k">>, members |-> <<<<"a">>>>]
        /\ reply[g] = RespArray(<<Integer(0)>>)

\* C2: SISMEMBER replies Integer 1 exactly when an earlier SADD insertion on
\* that same key was of that member, and Integer 0 otherwise (so 0 for every
\* member of a key no SADD has written).
C2_SIsMemberReply ==
    \A h \in Handlers :
        (pc[h] = "done" /\ IsCmd(h, "SIsMember")) =>
            /\ Len(fresh[h]) = 1
            /\ reply[h] = Bit(~fresh[h][1])

\* C2, its case: with a in the set of k, SISMEMBER k a replied 1 and
\* SISMEMBER j a, on a key never written, replied 0
C2_Witness ==
    \E h, g \in Handlers :
        /\ pc[h] = "done" /\ pc[g] = "done"
        /\ cmd[h].cmd = [t |-> "SIsMember", key |-> <<"k">>, member |-> <<"a">>]
        /\ reply[h] = Integer(1)
        /\ cmd[g].cmd = [t |-> "SIsMember", key |-> <<"j">>, member |-> <<"a">>]
        /\ reply[g] = Integer(0)
        /\ <<"j">> \notin DOMAIN store.hset

\* C3: when two handlers each received a SADD on the same key while the set
\* did not hold member m, and both have since inserted m, then exactly one of
\* the two was answered 1 and the other 0, and m is in the set.
C3_ConcurrentSAdd ==
    \A h, g \in Handlers : \A m \in Members :
        (/\ h # g
         /\ IsCmd(h, "SAdd") /\ IsCmd(g, "SAdd")
         /\ cmd[h].cmd.key = cmd[g].cmd.key
         /\ m \notin atRecv[h] /\ m \notin atRecv[g]
         /\ FirstAt(cmd[h].cmd.members, m) \in 1..Len(acc[h])
         /\ FirstAt(cmd[g].cmd.members, m) \in 1..Len(acc[g]))
        => LET x == acc[h][FirstAt(cmd[h].cmd.members, m)]
               y == acc[g][FirstAt(cmd[g].cmd.members, m)]
           IN  /\ {x, y} = {Integer(0), Integer(1)}
               /\ backend_sismember(store, cmd[h].cmd.key, m)

\* C3, its case: both handlers received SADD k a on the empty set, both have
\* run, and the replies are [1] and [0]
C3_Witness ==
    \E h, g \in Handlers :
        /\ h # g
        /\ pc[h] = "done" /\ pc[g] = "done"
        /\ IsCmd(h, "SAdd") /\ IsCmd(g, "SAdd")
        /\ cmd[h].cmd.key = <<"k">> /\ cmd[g].cmd.key = <<"k">>
        /\ cmd[h].cmd.members = <<<<"a">>>> /\ cmd[g].cmd.members = <<<<"a">>>>
        /\ atRecv[h] = {} /\ atRecv[g] = {}
        /\ reply[h] = RespArray(<<Integer(1)>>)
        /\ reply[g] = RespArray(<<Integer(0)>>)

----------------------------------------------------------------------------
(* Properties of the command parser (checked under ParseSpec) *)

\* the parse of an array by the target t has returned
Returned(t) == pout # NoResult /\ ptarget = t /\ pin.t = "Array"

\* the first element of v is not the BulkString of the name, in any case
NameMismatch(v, name) ==
    v[1].t # "BulkString" \/ to_ascii_lowercase(v[1].v) # into_bytes(name)

\* the first element of v is the name, in any case
Named(v, name) == v # <<>> /\ ~NameMismatch(v, name)

\* f is a BulkString that holds valid UTF-8
IsTextArg(f) == f.t = "BulkString" /\ String_from_utf8(f.v).ok

\* C9 (amended): in validate_command an argument-count violation raises
\* InvalidArgument, whose message carries the expected count only, and a
\* command-name token that mismatches (or is no BulkString) raises
\* InvalidCommand; so SISMEMBER with one or three arguments instead of two is
\* rejected with InvalidArgument, also when it is reached through the command
\* dispatch.  Only SADD's own minimum-count check, which runs before
\* validate_command, raises InvalidCommand with the expected and actual count.
C9_Validation ==
    /\ Returned("SIsMember") =>
           IF Len(pin.fs) # 3
           THEN /\ pout.err.kind = "InvalidArgument"
                /\ pout.err.expected = 2
                /\ pout.err.got = NoCount
           ELSE NameMismatch(pin.fs, n_sismember) => pout.err.kind = "InvalidCommand"
    /\ (Returned("Command") /\ Named(pin.fs, n_sismember) /\ Len(pin.fs) # 3) =>
           /\ pout.err.kind = "InvalidArgument"
           /\ pout.err.expected = 2
    /\ (Returned("SAdd") /\ Len(pin.fs) \in 1..2) =>
           /\ pout.err.kind = "InvalidCommand"
           /\ pout.err.expected = 2
           /\ pout.err.got = Len(pin.fs)
    /\ (Returned("SAdd") /\ Len(pin.fs) > 2 /\ NameMismatch(pin.fs, n_sadd)) =>
           pout.err.kind = "InvalidCommand"

\* C9, its case: SISMEMBER k (one argument) and SISMEMBER k a b (three) were
\* parsed and rejected
C9_Witness ==
    /\ Returned("SIsMember")
    /\ Named(pin.fs, n_sismember)
    /\ Len(pin.fs) \in {2, 4}
    /\ ~pout.ok

\* C9 as first stated: a count violation raises InvalidCommand with the
\* expected and the actual count, a mismatching name token InvalidArgument
C9_AsStated ==
    Returned("SIsMember") =>
        IF Len(pin.fs) # 3
        THEN /\ pout.err.kind = "InvalidCommand"
             /\ pout.err.expected = 2
             /\ pout.err.got = Len(pin.fs) - 1
        ELSE NameMismatch(pin.fs, n_sismember) => pout.err.kind = "InvalidArgument"

\* the SAdd command that the array v (name, key, members) stands for
SAddOf(v) ==
    [t |-> "SAdd", key |-> String_from_utf8(v[2].v).v,
     members |-> [i \in 1..(Len(v) - 2) |-> String_from_utf8(v[i + 2].v).v]]

\* C10 (amended): parsing SADD, an array with only the name, or the name and a
\* key, is rejected with InvalidCommand; an array with the name, a key and
\* n >= 1 members, all BulkStrings holding valid UTF-8, parses to the SAdd
\* whose key is the second element and whose members are the remaining n
\* elements in input order; every SAdd the parser produces has a non-empty
\* member list.
C10_SAddParse ==
    /\ \A t \in {"SAdd", "Command"} :
           (Returned(t) /\ Named(pin.fs, n_sadd)) =>
               /\ Len(pin.fs) \in 1..2 => pout.err.kind = "InvalidCommand"
               /\ (Len(pin.fs) >= 3 /\ \A i \in 2..Len(pin.fs) : IsTextArg(pin.fs[i])) =>
                      pout = POk(SAddOf(pin.fs))
    /\ (pout.ok /\ pout.cmd.t = "SAdd") => pout.cmd.members # <<>>

\* C10, its case: SADD k a b was parsed to key k and members a, b
C10_Witness ==
    /\ Returned("SAdd")
    /\ pin.fs = <<BulkString(n_sadd), BulkString(<<"k">>), BulkString(<<"a">>),
                  BulkString(<<"b">>)>>
    /\ pout = POk([t |-> "SAdd", key |-> <<"k">>, members |-> <<<<"a">>, <<"b">>>>])

\* C10 as first stated: the name, a key and n >= 1 BulkString members always
\* parse to SAdd
C10_AsStated ==
    \A t \in {"SAdd", "Command"} :
        (Returned(t) /\ Named(pin.fs, n_sadd)) =>
            /\ Len(pin.fs) \in 1..2 => pout.err.kind = "InvalidCommand"
            /\ (/\ Len(pin.fs) >= 3
                /\ IsTextArg(pin.fs[2])
                /\ \A i \in 3..Len(pin.fs) : pin.fs[i].t = "BulkString") =>
                   pout.ok /\ pout.cmd.t = "SAdd"

----------------------------------------------------------------------------
(* Properties of the decoder (checked under DecSpec) *)

\* the complete bytes of the stream: the encodings of the frames sent
AllBytes == Flatten([i \in 1..Len(sent) |-> encode(sent[i])])

\* what decoding the complete bytes of the stream in one go returns
SingleShot(n) == decode_frames(AllBytes, n)

\* the number of frames decoded before the last call
Before == IF call.tag = "Ok" THEN Len(got) - 1 ELSE Len(got)

\* the last call was made by a decoder of the frame the stream holds next
CallOnNext ==
    /\ call.by # "none"
    /\ Before < Len(sent)
    /\ call.by = "SimpleError" => sent[Before + 1].t = "Error"

\* the number of bytes the last call removed from the buffer
Consumed == Len(call.pre) - Len(call.post)

\* C4: a decode call that returns Incomplete leaves the buffer byte for byte
\* as it was (also when a nested element of an Array, Map or Set is the
\* incomplete one), a second call on that same buffer returns Incomplete
\* again, and the frames decoded once the missing bytes have arrived are the
\* frames a single decode pass over the complete bytes returns.
C4_IncompleteRetry ==
    /\ call.tag = "Incomplete" => call.post = call.pre
    /\ retryOf = "Incomplete" => call.tag = "Incomplete" /\ call.post = call.pre
    /\ sent # <<>> =>
           /\ SingleShot(Len(got)).tag = "Ok"
           /\ got = SingleShot(Len(got)).frames

\* C4, its case: a call on a part of the array [1, -E] returned Incomplete,
\* more bytes arrived and the next call returned the array
C4_Witness ==
    /\ sent = <<RespArray(<<Integer(1), E1>>)>>
    /\ call.by = "RespFrame"
    /\ call.prev = "Incomplete"
    /\ call.tag = "Ok"
    /\ got = sent

\* C5: for a valid encoded frame, a call on a strict prefix of its bytes
\* returns Incomplete, never Malformed and never a frame; and the next call,
\* on its full bytes, returns the frame that decoding the complete bytes in one
\* go returns.
C5_SplitAnywhere ==
    CallOnNext =>
        LET bytes == encode(sent[Before + 1])
        IN  /\ (Len(call.pre) < Len(bytes) /\ call.pre = Take(bytes, Len(call.pre))) =>
                   call.tag = "Incomplete"
            /\ (call.prev = "Incomplete" /\ call.pre = bytes) =>
                   /\ call.tag = "Ok"
                   /\ call.post = <<>>
                   /\ SingleShot(Before + 1).tag = "Ok"
                   /\ call.frame = SingleShot(Before + 1).frames[Before + 1]

\* C5, its case: the map was split inside its second entry, the first part
\* gave Incomplete and the full bytes then gave the map
C5_Witness ==
    /\ Len(sent) = 1 /\ sent[1].t = "Map" /\ DOMAIN sent[1].m # {}
    /\ call.by = "RespFrame"
    /\ call.prev = "Incomplete"
    /\ call.pre = encode(sent[1])
    /\ call.frame = sent[1]

\* the frame holds a NaN double, at any depth
RECURSIVE HasNaN(_)
HasNaN(f) ==
    CASE f.t = "Double" -> f.d.k = "nan"
      [] f.t \in {"Array", "Set"} -> \E i \in 1..Len(f.fs) : HasNaN(f.fs[i])
      [] f.t = "Map" -> \E x \in DOMAIN f.m : HasNaN(f.m[x])
      [] OTHER -> FALSE

\* a call on exactly the encoding of the one frame f of the stream
RoundTrip(f) ==
    /\ sent = <<f>>
    /\ CallOnNext
    /\ call.pre = encode(f)

\* C6 (amended): for every frame f of each of the 12 variants that holds no
\* NaN double (text payloads without CR or LF), decoding a buffer that holds
\* exactly encode(f) returns a frame equal to f and leaves the buffer empty; for
\* a NaN double the decoded frame is a NaN double again, which compares
\* unequal to f.
C6_RoundTrip ==
    \A f \in DecFrames :
        RoundTrip(f) =>
            /\ call.tag = "Ok"
            /\ call.post = <<>>
            /\ ~HasNaN(f) => RespFrame_eq(call.frame, f)
            /\ HasNaN(f) => call.frame = f /\ ~RespFrame_eq(call.frame, f)

\* C6, its case: the encoding of the set {-E, true} was decoded back
C6_Witness ==
    /\ RoundTrip(RespSet(<<E1, Boolean(TRUE)>>))
    /\ call.tag = "Ok"
    /\ RespFrame_eq(call.frame, sent[1])

\* C6 as first stated: the decoded frame equals f, whatever f is
C6_AsStated ==
    \A f \in DecFrames :
        RoundTrip(f) =>
            /\ call.tag = "Ok"
            /\ call.post = <<>>
            /\ RespFrame_eq(call.frame, f)

\* C7: a successful decode removes from the front of the buffer the bytes of
\* exactly one frame (decoded alone they give that frame and nothing is
\* left; for a simple error their number is what expect_length reports) and
\* leaves the bytes after them as they were, so that the calls on a buffer of
\* concatenated frames return those frames one by one, in order.
C7_ConsumesOneFrame ==
    call.tag = "Ok" =>
        /\ Consumed \in 1..Len(call.pre)
        /\ call.post = Drop(call.pre, Consumed)
        /\ decode(Take(call.pre, Consumed)) = DecOk(call.frame, <<>>)
        /\ call.frame.t = "Error" =>
               /\ SimpleError_expect_length(call.pre) = [tag |-> "Ok", len |-> Consumed]
               /\ Take(call.pre, Len(SimpleError_PREFIX)) = SimpleError_PREFIX
               /\ call.frame.v = String_from_utf8_lossy(
                      SubSeq(call.pre, Len(SimpleError_PREFIX) + 1, Consumed - CRLF_LEN))
               /\ SubSeq(call.pre, Consumed - CRLF_LEN + 1, Consumed) = CRLF
        /\ sent # <<>> =>
               /\ got = Take(sent, Len(got))
               /\ Take(call.pre, Consumed) = encode(call.frame)
               /\ buf \o wire = Drop(AllBytes, Len(Flatten([i \in 1..Len(got) |->
                                                                encode(got[i])])))

\* C7, its case: of the stream -E, [1, -E] both frames were decoded, the
\* second by a call that found it at the front of the buffer
C7_Witness ==
    /\ sent = <<E1, RespArray(<<Integer(1), E1>>)>>
    /\ got = sent
    /\ call.tag = "Ok"
    /\ call.post = <<>>

\* C8: a decode call that returns Malformed (unrecognised leading byte,
\* unparsable length header or payload, also in an element nested in an
\* Array, Map or Set after well-formed elements) leaves the buffer byte for
\* byte as it was, and a second call on it returns Malformed again.
C8_MalformedKeepsBuffer ==
    /\ call.tag = "Malformed" => call.post = call.pre /\ call.frame = NoFrame
    /\ retryOf = "Malformed" => call.tag = "Malformed" /\ call.post = call.pre

\* C8, its case: in the array [1, -E] the prefix byte of the second element
\* is damaged; the call returned Malformed and the buffer is whole
C8_Witness ==
    /\ call.by = "RespFrame"
    /\ call.tag = "Malformed"
    /\ call.pre = Corrupt(encode(RespArray(<<Integer(1), E1>>)), 9, "x")
    /\ call.post = call.pre
    /\ buf = call.pre

----------------------------------------------------------------------------
(* More properties of the command parser (checked under ParseSpec) *)

\* C14: parsing a frame that is no Array yields InvalidCommand, and so does
\* parsing an Array that is empty or whose first element is no BulkString; no
\* command, Unrecognized or other, is produced.
C14_NotACommand ==
    (/\ pout # NoResult
     /\ ptarget = "Command"
     /\ \/ pin.t # "Array"
        \/ pin.fs = <<>>
        \/ pin.fs[1].t # "BulkString") =>
        /\ ~pout.ok
        /\ pout.cmd = NoCmd
        /\ pout.err.kind = "InvalidCommand"

\* C14, its case: the bulk string sadd, handed to the parser outside any
\* array, was rejected
C14_Witness ==
    /\ ptarget = "Command"
    /\ pin = BulkString(n_sadd)
    /\ pout.err.kind = "InvalidCommand"

\* the parse of a SADD or SISMEMBER array with a correct argument count has
\* returned, from the command's own TryFrom or through the dispatch
ReturnedCounted(name) ==
    /\ pout # NoResult
    /\ pin.t = "Array"
    /\ Named(pin.fs, name)
    /\ \/ name = n_sadd /\ ptarget \in {"SAdd", "Command"} /\ Len(pin.fs) >= 3
       \/ name = n_sismember /\ ptarget \in {"SIsMember", "Command"} /\ Len(pin.fs) = 3

\* the positions of the key and member elements that are no BulkString
NonBulk(v) == {i \in 2..Len(v) : v[i].t # "BulkString"}

\* the positions of the key and member BulkStrings that are not valid UTF-8
BadUtf8(v) == {i \in 2..Len(v) : v[i].t = "BulkString" /\ ~String_from_utf8(v[i].v).ok}

\* the least element of a non-empty set of positions
Least(S) == CHOOSE i \in S : \A j \in S : i <= j

\* C15 (amended): for SADD and SISMEMBER with a correct argument count, when a
\* key or member element is defective no command is produced; if the only
\* defect is elements that are no BulkString the error is InvalidArgument, if
\* it is BulkStrings that are not valid UTF-8 the error is the UTF-8 one; when
\* both occur, SISMEMBER yields InvalidArgument and SADD the error of the
\* first defective element.
C15_ArgumentErrors ==
    \A name \in {n_sadd, n_sismember} :
        (ReturnedCounted(name) /\ NonBulk(pin.fs) \cup BadUtf8(pin.fs) # {}) =>
            LET nb == NonBulk(pin.fs)
                bu == BadUtf8(pin.fs)
            IN  /\ ~pout.ok
                /\ pout.cmd = NoCmd
                /\ bu = {} => pout.err.kind = "InvalidArgument"
                /\ nb = {} => pout.err.kind = "Utf8Error"
                /\ (nb # {} /\ bu # {}) =>
                       IF name = n_sismember THEN pout.err.kind = "InvalidArgument"
                       ELSE pout.err.kind = IF Least(nb \cup bu) \in nb
                                            THEN "InvalidArgument" ELSE "Utf8Error"

\* C15, its case: SISMEMBER k <0xFF> was rejected with the UTF-8 error
C15_Witness ==
    /\ ptarget = "SIsMember"
    /\ pin.fs = <<BulkString(n_sismember), BulkString(<<"k">>), BulkString(<<FF>>)>>
    /\ pout = Utf8Error

\* C15 as first stated: an element that is no BulkString yields
\* InvalidArgument, a BulkString that is not valid UTF-8 the UTF-8 error
C15_AsStated ==
    \A name \in {n_sadd, n_sismember} :
        ReturnedCounted(name) =>
            /\ NonBulk(pin.fs) # {} => ~pout.ok /\ pout.err.kind = "InvalidArgument"
            /\ BadUtf8(pin.fs) # {} => ~pout.ok /\ pout.err.kind = "Utf8Error"

----------------------------------------------------------------------------
(* Properties of parsing followed by execution *)

\* the parse of an array whose first element is a BulkString has returned
ReturnedNamed == pout # NoResult /\ pin.t = "Array" /\ pin.fs # <<>> /\ pin.fs[1].t = "BulkString"

\* the handler has executed the command dispatched to it
Executed(h) == pc[h] = "done" /\ cmd[h].ok

\* C11: parsing never touches the backend and an error is local to one
\* command: the arrival and parse of a frame leaves the store and its
\* histories as they were, a handler whose frame failed to parse has finished
\* without a backend call and without a reply frame, and the store changes
\* only in steps of handlers that execute a command that did parse.
C11_ParseLeavesStore ==
    /\ [](\A h \in Handlers :
              (pc[h] # "idle" /\ ~cmd[h].ok) =>
                  /\ pc[h] = "done"
                  /\ acc[h] = <<>> /\ fresh[h] = <<>>
                  /\ reply[h] = NoFrame)
    /\ [][/\ ncmds' # ncmds => store' = store /\ added' = added /\ hist' = hist
          /\ store' # store => \E h \in Handlers : pc[h] = "exec" /\ cmd[h].ok]_vars

\* C11, its case: SISMEMBER k with no member was rejected while the set of k
\* held a, and a SISMEMBER k a of the other handler was answered 1
C11_Witness ==
    \E h, g \in Handlers :
        /\ pc[h] = "done" /\ cmd[h].err.kind = "InvalidArgument"
        /\ Executed(g) /\ cmd[g].cmd.t = "SIsMember"
        /\ reply[g] = Integer(1)
        /\ <<"k">> \in DOMAIN store.hset
        /\ store.hset[<<"k">>] = {<<"a">>}

\* C12: an array whose first element is a BulkString that is none of the nine
\* command names, in any spelling, parses to Unrecognized whatever follows the
\* name; executing Unrecognized replies the simple string OK and leaves the
\* store as it was.
C12_Unrecognized ==
    /\ []((/\ ReturnedNamed
           /\ ptarget = "Command"
           /\ to_ascii_lowercase(pin.fs[1].v) \notin CommandNames) =>
              pout = POk([t |-> "Unrecognized"]))
    /\ [][\A h \in Handlers :
              (Running(h, "Unrecognized") /\ pc'[h] = "done") =>
                  /\ reply'[h] = SimpleString(<<"O", "K">>)
                  /\ store' = store /\ added' = added /\ hist' = hist]_vars

\* C12, its case: FOO with three arguments was parsed and executed on the
\* written store, and answered OK
C12_Witness ==
    /\ pin.t = "Array" /\ Len(pin.fs) = 4
    /\ pin.fs[1] = BulkString(<<"F", "O", "O">>)
    /\ Executed(Server)
    /\ reply[Server] = SimpleString(<<"O", "K">>)
    /\ store # EmptyStore

\* the array v with its name in lower case
LowerName(v) == [v EXCEPT ![1] = BulkString(to_ascii_lowercase(v[1].v))]

\* the result of the TryFrom that the target t names, for the array v
ParseAs(t, v) ==
    CASE t = "Command" -> Command_try_from(RespArray(v))
      [] t = "SAdd" -> SAdd_try_from(v)
      [] t = "SIsMember" -> SIsMember_try_from(v)

\* the reply of a command that reads the store st
Answer(st, c) ==
    CASE c.t = "Get" -> Get_execute(st, c)
      [] c.t = "Echo" -> Echo_execute(c)
      [] c.t = "HGet" -> HGet_execute(st, c)
      [] c.t = "HGetAll" -> HGetAll_execute(st, c)
      [] c.t = "HMGet" -> HMGet_execute(st, c)
      [] c.t = "SIsMember" -> SIsMember_execute(st, c)
      [] c.t = "Unrecognized" -> Unrecognized_execute
      [] c.t \in {"Set", "HSet"} -> RESP_OK

\* C13: command dispatch is case-insensitive: for each of the nine names in
\* any spelling, the parse of the array returns what the parse of the same
\* array with the name in lower case returns, the same command or the same
\* error, and the executed command replies what the lower-case command replies
\* on that store; GET on the empty store replies Null.
C13_CaseInsensitive ==
    (ReturnedNamed /\ to_ascii_lowercase(pin.fs[1].v) \in CommandNames) =>
        LET low == ParseAs(ptarget, LowerName(pin.fs))
        IN  /\ pout = low
            /\ (Executed(Server) /\ low.cmd.t # "SAdd") =>
                   reply[Server] = Answer(store, low.cmd)
            /\ (Executed(Server) /\ low.cmd.t = "SAdd") =>
                   reply[Server] = RespArray([i \in 1..Len(low.cmd.members) |->
                       Bit(/\ low.cmd.members[i] \notin atRecv[Server]
                           /\ FirstAt(low.cmd.members, low.cmd.members[i]) = i)])
            /\ (Executed(Server) /\ low.cmd.t = "Get" /\ store = EmptyStore) =>
                   reply[Server] = RespNull

\* C13, its case: GET k, in upper case, was parsed and executed on the empty
\* store and replied Null
C13_Witness ==
    /\ pin = RespArray(<<BulkString(<<"G", "E", "T">>), BulkString(<<"k">>)>>)
    /\ pout = POk([t |-> "Get", key |-> <<"k">>])
    /\ Executed(Server)
    /\ store = EmptyStore
    /\ reply[Server] = RespNull

----------------------------------------------------------------------------
(* Properties of the scalar and hash commands (checked under KvSpec) *)

\* handler h executes its command of type t in this step
Executes(h, t) == Running(h, t) /\ pc'[h] = "done"

\* the value the most recent executed SET gave the key, Null when there was none
LastSet(key) == IF key \in DOMAIN hist.set THEN hist.set[key] ELSE RespNull

\* the value the most recent executed HSET gave the field of the key, Null
\* when there was none
LastHSet(key, field) ==
    IF <<key, field>> \in DOMAIN hist.hset THEN hist.hset[<<key, field>>] ELSE RespNull

\* C16: HMGET replies an array with one entry per requested field, in the
\* requested order; each entry is the value of the most recent HSET on that
\* key and field, or Null when there was none (so all Null for a key without
\* a hash).
C16_HMGetReply ==
    [][\A h \in Handlers :
           Executes(h, "HMGet") =>
               LET c == cmd[h].cmd
               IN  /\ reply'[h].t = "Array"
                   /\ Len(reply'[h].fs) = Len(c.fields)
                   /\ \A i \in 1..Len(c.fields) :
                          reply'[h].fs[i] = LastHSet(c.hash, c.fields[i])
                   /\ store' = store]_vars

\* C16, its case: after HSET k f a and HSET k g b, HMGET k f g x replied
\* [a, b, Null]
C16_Witness ==
    \E h \in Handlers :
        /\ Executed(h)
        /\ cmd[h].cmd = [t |-> "HMGet", hash |-> <<"k">>,
                         fields |-> <<<<"f">>, <<"g">>, <<"x">>>>]
        /\ reply[h] = RespArray(<<BulkString(<<"a">>), BulkString(<<"b">>), RespNull>>)

\* C17: GET replies the value of the most recent SET executed on the key, or
\* Null when no SET on it was executed; SET replies OK, and the next GET of
\* the key finds its value whatever the key held before.
C17_GetSet ==
    [][\A h \in Handlers :
           /\ Executes(h, "Get") =>
                  /\ reply'[h] = LastSet(cmd[h].cmd.key)
                  /\ store' = store
           /\ Executes(h, "Set") =>
                  /\ reply'[h] = SimpleString(<<"O", "K">>)
                  /\ Get_execute(store', cmd[h].cmd) = cmd[h].cmd.value
                  /\ \A k \in Keys \ {cmd[h].cmd.key} :
                         Get_execute(store', [key |-> k]) = Get_execute(store, [key |-> k])
      ]_vars

\* C17, its case: SET k 1 was executed, then SET k b, and GET k replied b
C17_Witness ==
    \E h, g \in Handlers :
        /\ Executed(g)
        /\ cmd[g].cmd = [t |-> "Set", key |-> <<"k">>, value |-> Integer(1)]
        /\ Executed(h)
        /\ cmd[h].cmd = [t |-> "Get", key |-> <<"k">>]
        /\ reply[h] = BulkString(<<"b">>)
        /\ hist.set[<<"k">>] = BulkString(<<"b">>)

\* C18: HGET replies the value of the most recent HSET executed on the key and
\* field, or Null when the key has no hash or the hash no such field; HSET
\* replies OK, creates the hash when the key has none, gives the named field
\* its value and leaves every other field of every hash as it was.
C18_HGetHSet ==
    [][\A h \in Handlers :
           /\ Executes(h, "HGet") =>
                  /\ reply'[h] = LastHSet(cmd[h].cmd.key, cmd[h].cmd.field)
                  /\ store' = store
           /\ Executes(h, "HSet") =>
                  LET c == cmd[h].cmd
                  IN  /\ reply'[h] = SimpleString(<<"O", "K">>)
                      /\ c.key \in DOMAIN store'.hmap
                      /\ DOMAIN store'.hmap = DOMAIN store.hmap \cup {c.key}
                      /\ \A k \in DOMAIN store'.hmap :
                             LET old == IF k \in DOMAIN store.hmap THEN store.hmap[k] ELSE <<>>
                             IN  /\ DOMAIN store'.hmap[k] =
                                        DOMAIN old \cup (IF k = c.key THEN {c.field} ELSE {})
                                 /\ \A f \in DOMAIN store'.hmap[k] :
                                        store'.hmap[k][f] =
                                            IF k = c.key /\ f = c.field THEN c.value ELSE old[f]
      ]_vars

\* C18, its case: HSET k f a and HSET k g b were executed and HGET k f, after
\* both, replied a
C18_Witness ==
    \E h, g \in Handlers :
        /\ Executed(g)
        /\ cmd[g].cmd = [t |-> "HSet", key |-> <<"k">>, field |-> <<"g">>,
                         value |-> BulkString(<<"b">>)]
        /\ Executed(h)
        /\ cmd[h].cmd = [t |-> "HGet", key |-> <<"k">>, field |-> <<"f">>]
        /\ reply[h] = BulkString(<<"a">>)
        /\ DOMAIN store.hmap[<<"k">>] = {<<"f">>, <<"g">>}

----------------------------------------------------------------------------
(* Properties of the encoder (checked under EncSpec) *)

\* the frame of type t has been encoded
Encoded(t) == wire # <<>> /\ sent[1].t = t

\* the text between the prefix byte and the final CRLF of the bytes written
Payload == SubSeq(wire, 2, Len(wire) - CRLF_LEN)

\* the text holds an exponent
IsScientific(p) == "e" \in Range(p) \/ "E" \in Range(p)

\* 1e-8 <= |d| <= 1e8
InPlainRange(d) ==
    /\ d.k = "fin" /\ ~IsZero(d)
    /\ d.exp >= -8
    /\ d.exp < 8 \/ (d.exp = 8 /\ d.dig = <<1>>)

\* C19 (amended): the encoding of a finite double d is plain decimal text,
\* with a sign only when d is negative, when 1e-8 <= |d| <= 1e8, and
\* scientific notation with an explicit sign otherwise: |d| = 1e8 exactly is
\* encoded in plain decimal and 0.0 in scientific notation (,+0e0); the text
\* reads back as d; 123.456 gives ,123.456 and 1.23456e8 gives ,+1.23456e8.
\* An infinity is written as +inf or -inf and NaN as NaN.
C19_DoubleNotation ==
    Encoded("Double") =>
        LET d == sent[1].d
        IN  /\ Head(wire) = "," /\ Drop(wire, Len(wire) - CRLF_LEN) = CRLF
            /\ d.k = "fin" =>
                   /\ ParseF64(Payload) = [ok |-> TRUE, v |-> d]
                   /\ IsScientific(Payload) <=> ~InPlainRange(d)
                   /\ InPlainRange(d) => (Payload[1] = "-" <=> d.neg) /\ Payload[1] # "+"
                   /\ ~InPlainRange(d) => Payload[1] = (IF d.neg THEN "-" ELSE "+")
            /\ d = Fin(FALSE, <<1, 2, 3, 4, 5, 6>>, 2) =>
                   Payload = <<"1", "2", "3", ".", "4", "5", "6">>
            /\ d = Fin(FALSE, <<1, 2, 3, 4, 5, 6>>, 8) =>
                   Payload = <<"+", "1", ".", "2", "3", "4", "5", "6", "e", "8">>
            /\ d.k = "inf" => Payload = <<IF d.neg THEN "-" ELSE "+", "i", "n", "f">>
            /\ d.k = "nan" => Payload = <<"N", "a", "N">>

\* C19, its case: 1e8 was encoded, in plain decimal
C19_Witness ==
    /\ Encoded("Double")
    /\ sent[1].d = Fin(FALSE, <<1>>, 8)
    /\ Payload = <<"1", "0", "0", "0", "0", "0", "0", "0", "0">>

\* C19 as first stated: plain decimal when 1e-8 <= |d| < 1e8 or d = 0,
\* scientific notation with an explicit sign otherwise
C19_AsStated ==
    (Encoded("Double") /\ sent[1].d.k = "fin") =>
        LET d == sent[1].d
            plain == IsZero(d) \/ (d.exp >= -8 /\ d.exp < 8)
        IN  /\ plain => ~IsScientific(Payload)
            /\ ~plain => IsScientific(Payload) /\ Payload[1] \in {"+", "-"}

\* the length header of the bytes written, and what follows it
Header == SubSeq(wire, 2, find_crlf(wire))
Body == Drop(wire, find_crlf(wire) + CRLF_LEN)

\* C20: in the encoding of an Array, Set or Map the length header is the
\* number of elements or entries, not a byte length, and exactly that many
\* encoded elements follow it in sequence order; the entries of a Map follow
\* in ascending key order, each as the key encoded as a simple string and
\* then the value's encoding.
C20_LengthIsCount ==
    /\ \A t \in {"Array", "Set"} :
           Encoded(t) =>
               LET fs == sent[1].fs
               IN  /\ Head(wire) = (IF t = "Array" THEN "*" ELSE "~")
                   /\ Header = NatText(Len(fs))
                   /\ decode_frames(Body, Len(fs)) =
                          [tag |-> "Ok", frames |-> fs, rest |-> <<>>]
    /\ Encoded("Map") =>
           LET m == sent[1].m
               n == Cardinality(DOMAIN m)
               es == decode_frames(Body, 2 * n)
           IN  /\ Head(wire) = "%"
               /\ Header = NatText(n)
               /\ es.tag = "Ok" /\ es.rest = <<>> /\ Len(es.frames) = 2 * n
               /\ \A i \in 1..n :
                      /\ es.frames[2 * i - 1].t = "SimpleString"
                      /\ es.frames[2 * i - 1].v \in DOMAIN m
                      /\ es.frames[2 * i] = m[es.frames[2 * i - 1].v]
                      /\ i > 1 => StrLess(es.frames[2 * i - 3].v, es.frames[2 * i - 1].v)

\* C20, its case: the map with the keys h, f and ha was encoded, f first
C20_Witness ==
    /\ Encoded("Map")
    /\ DOMAIN sent[1].m = EncKeys
    /\ Header = <<"3">>
    /\ SubSeq(Body, 1, 4) = <<"+", "f", CR, LF>>

----------------------------------------------------------------------------
(* Properties of the sets over whole runs (checked under Spec) *)

\* the handler h has finished a command on the key k and the member m
\* that tells m to be in the set: SISMEMBER replied 1, or SADD holds m
ToldPresent(h, k, m) ==
    /\ Executed(h)
    /\ \/ /\ cmd[h].cmd.t = "SIsMember"
          /\ cmd[h].cmd.key = k /\ cmd[h].cmd.member = m
          /\ reply[h] = Integer(1)
       \/ /\ cmd[h].cmd.t = "SAdd"
          /\ cmd[h].cmd.key = k /\ m \in Range(cmd[h].cmd.members)

\* C21: set membership is monotone: a member that a SISMEMBER reply of 1 or a
\* completed SADD tells to be in a key's set, or that any insertion was
\* made of, is in the set; no step of any command (SET, HSET, SADD of other
\* members or keys, Unrecognized, a frame that fails to parse) takes a member
\* out of a set; and with the member in the set every SISMEMBER on it replies
\* 1 and every SADD insertion of it is answered 0.
C21_Monotone ==
    /\ [](\A k \in Keys, m \in Members :
              ((\E h \in Handlers : ToldPresent(h, k, m)) \/ <<k, m>> \in added)
              => backend_sismember(store, k, m))
    /\ [][\A k \in Keys, m \in Members :
              backend_sismember(store, k, m) =>
                  /\ backend_sismember(store', k, m)
                  /\ \A h \in Handlers :
                         /\ (/\ Executes(h, "SIsMember")
                             /\ cmd[h].cmd.key = k /\ cmd[h].cmd.member = m)
                            => reply'[h] = Integer(1)
                         /\ (/\ Running(h, "SAdd") /\ acc'[h] # acc[h]
                             /\ cmd[h].cmd.key = k
                             /\ cmd[h].cmd.members[Len(acc[h]) + 1] = m)
                            => acc'[h] = Append(acc[h], Integer(0))]_vars

\* C21, its case: after SADD k a and then SET k, SISMEMBER k a replied 1
C21_Witness ==
    \E h \in Handlers :
        /\ ncmds = 3
        /\ <<"k">> \in DOMAIN store.map
        /\ <<<<"k">>, <<"a">>>> \in added
        /\ Executed(h)
        /\ cmd[h].cmd = [t |-> "SIsMember", key |-> <<"k">>, member |-> <<"a">>]
        /\ reply[h] = Integer(1)

\* the kinds of entry the key k has in the store
KindsOf(k) == {t \in {"map", "hmap", "hset"} : k \in DOMAIN store[t]}

\* the step of the command that the handler h executes
ExecStep(h) ==
    \/ SAddStep(h) \/ SIsMemberExec(h) \/ UnrecognizedExec(h)
    \/ GetExec(h) \/ SetExec(h) \/ EchoExec(h)
    \/ HGetExec(h) \/ HSetExec(h) \/ HGetAllExec(h) \/ HMGetExec(h)

\* the frame r is a reply of the command c
IsReplyOf(c, r) ==
    CASE c.t = "Get" -> r # NoFrame
      [] c.t = "HGet" -> r # NoFrame
      [] c.t = "HGetAll" -> r.t = "Map"
      [] c.t = "HMGet" -> r.t = "Array" /\ Len(r.fs) = Len(c.fields)
      [] c.t = "SAdd" ->
             /\ r.t = "Array" /\ Len(r.fs) = Len(c.members)
             /\ \A i \in 1..Len(r.fs) : r.fs[i] \in {Integer(0), Integer(1)}
      [] c.t = "SIsMember" -> r \in {Integer(0), Integer(1)}
      [] OTHER -> r # NoFrame

\* C22: whatever kinds of entry the SET, HSET and SADD commands so far have
\* given a key, a GET, HGET, HGETALL, HMGET, SADD or SISMEMBER on that key
\* can always take its next step, and when it has completed it has returned
\* a reply frame of its command.
C22_NoPanic ==
    \A h \in Handlers :
        /\ pc[h] = "exec" => ENABLED ExecStep(h)
        /\ Executed(h) => IsReplyOf(cmd[h].cmd, reply[h])

\* C22, its case: the key k holds a hash and a set and no scalar, and GET k
\* replied Null
C22_Witness ==
    \E h \in Handlers :
        /\ KindsOf(<<"k">>) = {"hmap", "hset"}
        /\ Executed(h)
        /\ cmd[h].cmd = [t |-> "Get", key |-> <<"k">>]
        /\ reply[h] = RespNull

\* the handler h is between two insertions of its SADD
MidSAdd(h) ==
    /\ Running(h, "SAdd")
    /\ 0 < Len(acc[h]) /\ Len(acc[h]) < Len(cmd[h].cmd.members)

\* C23: a SADD with several members is atomic per member only: each of its
\* steps is one backend insertion, of the next member in input order, and
\* changes nothing else of the store; between two of them the members
\* inserted so far are in the set, a command of another connection can take
\* its step, and a SISMEMBER that does is answered from the set as it is
\* then, a later member of the running call not inserted yet.
C23_PerMember ==
    /\ [](\A h \in Handlers :
              MidSAdd(h) =>
                  /\ \A i \in 1..Len(acc[h]) :
                         backend_sismember(store, cmd[h].cmd.key, cmd[h].cmd.members[i])
                  /\ \A g \in Handlers \ {h} : pc[g] = "exec" => ENABLED ExecStep(g))
    /\ [][\A h \in Handlers :
              /\ (Running(h, "SAdd") /\ acc'[h] # acc[h]) =>
                     LET c == cmd[h].cmd
                         old == IF c.key \in DOMAIN store.hset THEN store.hset[c.key] ELSE {}
                     IN  /\ Len(acc'[h]) = Len(acc[h]) + 1
                         /\ store' = [store EXCEPT !.hset =
                                Put(store.hset, c.key, old \cup {c.members[Len(acc[h]) + 1]})]
              /\ \A g \in Handlers \ {h} :
                     (MidSAdd(h) /\ Executes(g, "SIsMember")) =>
                         /\ reply'[g] = Bit(backend_sismember(store, cmd[g].cmd.key,
                                                              cmd[g].cmd.member))
                         /\ MidSAdd(h)' /\ store' = store]_vars

\* C23, its case: one connection's SADD k a b has inserted a and not yet b,
\* and the SISMEMBER k a of the other connection, the only other command,
\* replied 1 while b is not in the set
C23_Witness ==
    \E h, g \in Handlers :
        /\ h # g /\ ncmds = 2
        /\ MidSAdd(h)
        /\ cmd[h].cmd.key = <<"k">> /\ cmd[h].cmd.members = <<<<"a">>, <<"b">>>>
        /\ atRecv[h] = {} /\ acc[h] = <<Integer(1)>>
        /\ Executed(g)
        /\ cmd[g].cmd = [t |-> "SIsMember", key |-> <<"k">>, member |-> <<"a">>]
        /\ reply[g] = Integer(1)
        /\ ~backend_sismember(store, <<"k">>, <<"b">>)

=============================================================================
